---- MODULE Spec2Model ----
(***************************************************************************)
(* Model of the query conductors of Holly Hot Box: the three complexity   *)
(* analyzers, QueryConductor, SmartConductor, BulletproofConductor,       *)
(* TaskBreakdown and the LLMOrchestrator strategies they call.            *)
(*                                                                         *)
(* Text is modelled as tuples of one-character strings so that the `in`   *)
(* substring tests of the Python source are computed, not assumed.  A     *)
(* prompt is a set of lower-case fragments, a number of filler words that *)
(* contain no keyword, digit or bracket, and a number of '?' characters.  *)
(***************************************************************************)
EXTENDS Integers, Sequences, FiniteSets, TLC

\* ------------------------------------------------------------------ bounds
MaxFrags == 2
MaxQ == 5
MaxHist == 2
MaxTasks == 2
MaxCalls == 2

\* ------------------------------------------------------------- text model
\* needle in hay (Python `needle in hay` on str)
Contains(hay, needle) ==
    \E i \in 1..(Len(hay) - Len(needle) + 1) :
        SubSeq(hay, i, i + Len(needle) - 1) = needle

\* number of whitespace-separated words of one fragment: len(s.split())
RECURSIVE Spaces(_)
Spaces(s) ==
    IF s = <<>> THEN 0
    ELSE (IF Head(s) = " " THEN 1 ELSE 0) + Spaces(Tail(s))

Words(s) == Spaces(s) + 1

RECURSIVE SumWords(_)
SumWords(fs) ==
    IF fs = {} THEN 0
    ELSE LET f == CHOOSE x \in fs : TRUE
         IN Words(f) + SumWords(fs \ {f})

\* `word in prompt.lower()` for a prompt made of fragments and filler
InPrompt(p, word) == \E f \in p.frags : Contains(f, word)

\* any(word in prompt.lower() for word in words)
AnyIn(p, words) == \E w \in words : InPrompt(p, w)

\* len(prompt.split())
WordCount(p) == p.filler + SumWords(p.frags)

\* prompt.count('?')
QuestionCount(p) == p.qmarks

B2N(b) == IF b THEN 1 ELSE 0

Digits == {"1","2","3","4","5","6","7","8","9"}

\* fragments a prompt of the model may contain
Fragments ==
    { <<"h","e","l","l","o">>,
      <<"l","e","g","a","l">>,
      <<"l","a","w","s","u","i","t">>,
      <<"c","o","n","t","r","a","c","t">>,
      <<"c","a","s","e"," ","f","i","l","e","s">>,
      <<"u","p","l","o","a","d","e","d">>,
      <<"l","i","s","t">>,
      <<"i","d","e","n","t","i","f","y">>,
      <<"a","n","a","l","y","z","e">>,
      <<"r","e","s","e","a","r","c","h">>,
      <<"t","h","e","n">>,
      <<"1",")">>,
      <<"3",".">>,
      <<"7">> }

QC_file_words ==
    { <<"f","i","l","e">>,
      <<"d","o","c","u","m","e","n","t">>,
      <<"u","p","l","o","a","d">>,
      <<"a","t","t","a","c","h","e","d">>,
      <<"c","a","s","e"," ","f","i","l","e","s">>,
      <<"s","u","m","m","a","r","y">>,
      <<"u","p","l","o","a","d","e","d">>,
      <<"f","i","l","e","s">> }

QC_list_words ==
    { <<"l","i","s","t">>,
      <<"e","n","u","m","e","r","a","t","e">>,
      <<"i","d","e","n","t","i","f","y"," ","a","l","l">>,
      <<"f","i","n","d"," ","a","l","l">> }

QC_analysis_words ==
    { <<"a","n","a","l","y","z","e">>,
      <<"e","v","a","l","u","a","t","e">>,
      <<"a","s","s","e","s","s">>,
      <<"c","o","m","p","a","r","e">>,
      <<"r","e","v","i","e","w">>,
      <<"e","x","a","m","i","n","e">> }

QC_research_words ==
    { <<"r","e","s","e","a","r","c","h">>,
      <<"f","i","n","d"," ","f","i","r","m","s">>,
      <<"l","o","c","a","t","e">>,
      <<"s","e","a","r","c","h"," ","f","o","r">>,
      <<"f","i","n","d","i","n","g">>,
      <<"h","e","l","p"," ","m","e"," ","b","y"," ","f","i","n","d","i","n","g">> }

QC_parts_words ==
    { <<"1",")">>,
      <<"2",")">>,
      <<"t","h","e","n">>,
      <<"a","l","s","o">>,
      <<"a","d","d","i","t","i","o","n","a","l","l","y">>,
      <<"b","a","s","e","d"," ","o","n">> }

SC_legal_words ==
    { <<"l","a","w","s","u","i","t">>,
      <<"l","e","g","a","l">>,
      <<"c","a","s","e">>,
      <<"l","a","w"," ","f","i","r","m">>,
      <<"a","t","t","o","r","n","e","y">>,
      <<"c","o","n","t","r","a","c","t">>,
      <<"l","i","t","i","g","a","t","i","o","n">> }

SC_analysis_words ==
    { <<"a","n","a","l","y","z","e">>,
      <<"r","e","v","i","e","w">>,
      <<"e","x","a","m","i","n","e">>,
      <<"a","s","s","e","s","s">>,
      <<"e","v","a","l","u","a","t","e">>,
      <<"i","d","e","n","t","i","f","y">>,
      <<"d","e","t","e","r","m","i","n","e">> }

SC_parts_words ==
    { <<"t","h","e","n">>,
      <<"a","l","s","o">>,
      <<"a","d","d","i","t","i","o","n","a","l","l","y">>,
      <<"f","u","r","t","h","e","r","m","o","r","e">>,
      <<"b","a","s","e","d"," ","o","n">>,
      <<"a","f","t","e","r"," ","t","h","a","t">> }

SC_file_words ==
    { <<"u","p","l","o","a","d","e","d">>,
      <<"a","t","t","a","c","h","e","d">>,
      <<"f","i","l","e">>,
      <<"d","o","c","u","m","e","n","t">>,
      <<"s","u","m","m","a","r","y">>,
      <<"c","a","s","e"," ","f","i","l","e","s">> }

BC_legal_words ==
    { <<"l","e","g","a","l">>,
      <<"l","a","w">>,
      <<"c","a","s","e">>,
      <<"l","a","w","s","u","i","t">>,
      <<"a","t","t","o","r","n","e","y">> }

BC_subtask_words ==
    { <<"l","a","w">>,
      <<"l","e","g","a","l">> }

TB_legal_words ==
    { <<"l","a","w","s","u","i","t">>,
      <<"l","e","g","a","l">>,
      <<"c","a","s","e">>,
      <<"l","a","w"," ","f","i","r","m">>,
      <<"a","t","t","o","r","n","e","y">> }

\* ------------------------------------------------------ complexity analyzers
\* variant: the history counts as a file reference from two messages on
QC_has_file_references_two(p, conversation_history) ==
    Len(conversation_history) > 1 \/ AnyIn(p, QC_file_words)

\* QueryConductor.analyze_query_complexity: the indicators and their weights
QC_has_file_references(p, conversation_history) ==
    Len(conversation_history) > 0 \/ AnyIn(p, QC_file_words)

QC_complexity_score(p, conversation_history) ==
    LET has_multiple_questions == QuestionCount(p) > 1
        has_long_context == WordCount(p) > 200
        has_file_references == QC_has_file_references(p, conversation_history)
        has_list_request == AnyIn(p, QC_list_words)
        has_analysis_request == AnyIn(p, QC_analysis_words)
        has_research_request == AnyIn(p, QC_research_words)
        has_multiple_parts == AnyIn(p, QC_parts_words)
    IN    B2N(has_multiple_questions) * 3
        + B2N(has_long_context) * 4
        + B2N(has_file_references) * 4
        + B2N(has_list_request) * 2
        + B2N(has_analysis_request) * 3
        + B2N(has_research_request) * 4
        + B2N(has_multiple_parts) * 3

\* QueryConductor.analyze_query_complexity: score -> complexity level
QC_complexity(complexity_score) ==
    IF complexity_score >= 4 THEN "multi_faceted"
    ELSE IF complexity_score >= 2 THEN "complex"
    ELSE IF complexity_score >= 1 THEN "moderate"
    ELSE "simple"

\* variant: a simple query goes to Gemini alone
QC_strategy_direct(complexity) ==
    IF complexity = "multi_faceted" THEN "orchestrated_breakdown"
    ELSE IF complexity = "complex" THEN "power_duo"
    ELSE "gemini_only"

\* QueryConductor.analyze_query_complexity: complexity level -> strategy
QC_strategy(complexity) ==
    IF complexity = "multi_faceted" THEN "orchestrated_breakdown"
    ELSE IF complexity = "complex" THEN "power_duo"
    ELSE IF complexity = "moderate" THEN "gemini_only"
    ELSE "fastest"

analyze_query_complexity(p, conversation_history) ==
    LET complexity_score == QC_complexity_score(p, conversation_history)
        complexity == QC_complexity(complexity_score)
    IN  [ level |-> complexity,
          score |-> complexity_score,
          requires_breakdown |-> complexity \in {"multi_faceted", "complex"},
          recommended_strategy |-> QC_strategy(complexity),
          parts |-> 0 ]

\* SmartConductor._analyze_complexity
has_numbered_list(p) ==
    \E d \in Digits : InPrompt(p, <<d, ")">>) \/ InPrompt(p, <<d, ".">>)

SC_score(p) ==
    LET has_multiple_questions == QuestionCount(p) > 1
        has_long_context == WordCount(p) > 300
        has_legal_keywords == AnyIn(p, SC_legal_words)
        has_analysis_request == AnyIn(p, SC_analysis_words)
        has_multiple_parts == AnyIn(p, SC_parts_words)
        has_file_references == AnyIn(p, SC_file_words)
    IN    B2N(has_multiple_questions) * 2
        + B2N(has_numbered_list(p)) * 2
        + B2N(has_long_context) * 3
        + B2N(has_legal_keywords) * 2
        + B2N(has_analysis_request) * 1
        + B2N(has_multiple_parts) * 2
        + B2N(has_file_references) * 3

\* variant: 'complex' only above 5
SC_level_above5(score) ==
    IF score >= 8 THEN "multi_faceted"
    ELSE IF score > 5 THEN "complex"
    ELSE IF score >= 2 THEN "moderate"
    ELSE "simple"

SC_level(score) ==
    IF score >= 8 THEN "multi_faceted"
    ELSE IF score >= 5 THEN "complex"
    ELSE IF score >= 2 THEN "moderate"
    ELSE "simple"

_analyze_complexity(p) ==
    LET score == SC_score(p)
        level == SC_level(score)
    IN  [ level |-> level,
          score |-> score,
          requires_breakdown |-> level \in {"complex", "multi_faceted"},
          recommended_strategy |-> "",
          parts |-> 0 ]

\* BulletproofConductor._quick_analysis
Max(a, b) == IF a >= b THEN a ELSE b

BC_has_multiple_parts(p) == \E d \in Digits : InPrompt(p, <<d>>)

BC_has_legal(p) == AnyIn(p, BC_legal_words)

\* variant: 'moderate' from 100 words on
BC_level_from100(question_count, word_count, has_multiple_parts, has_legal) ==
    LET is_long == word_count > 200
    IN  IF question_count >= 5 \/ (has_multiple_parts /\ is_long)
            THEN "multi_faceted"
        ELSE IF question_count >= 3 \/ (has_legal /\ is_long)
            THEN "complex"
        ELSE IF question_count >= 2 \/ word_count >= 100
            THEN "moderate"
        ELSE "simple"

BC_level(question_count, word_count, has_multiple_parts, has_legal) ==
    LET is_long == word_count > 200
    IN  IF question_count >= 5 \/ (has_multiple_parts /\ is_long)
            THEN "multi_faceted"
        ELSE IF question_count >= 3 \/ (has_legal /\ is_long)
            THEN "complex"
        ELSE IF question_count >= 2 \/ word_count > 100
            THEN "moderate"
        ELSE "simple"

_quick_analysis(p) ==
    LET word_count == WordCount(p)
        question_count == QuestionCount(p)
        level == BC_level(question_count, word_count,
                          BC_has_multiple_parts(p), BC_has_legal(p))
        parts ==
            IF level = "multi_faceted" THEN Max(question_count, 5)
            ELSE IF level = "complex" THEN Max(question_count, 3)
            ELSE IF level = "moderate" THEN 2
            ELSE 1
    IN  [ level |-> level,
          score |-> 0,
          requires_breakdown |-> level \in {"complex", "multi_faceted"},
          recommended_strategy |-> "",
          parts |-> parts ]

NoAnalysis ==
    [ level |-> "", score |-> 0, requires_breakdown |-> FALSE,
      recommended_strategy |-> "", parts |-> 0 ]

\* --------------------------------------------------------------- inputs
\* numbers of filler words, on both sides of each word-count threshold
FillerCounts == {3, 100, 101, 200, 201, 300, 301}

PromptsUpTo(n) ==
    { [frags |-> fs, filler |-> w, qmarks |-> q] :
        fs \in {s \in SUBSET Fragments : Cardinality(s) <= n},
        w \in FillerCounts, q \in 0..MaxQ }

Message == [role |-> "user", content |-> "earlier"]

RECURSIVE HistoriesUpTo(_)
HistoriesUpTo(n) ==
    IF n = 0 THEN {<<>>}
    ELSE LET prev == HistoriesUpTo(n - 1)
         IN prev \cup {Append(h, Message) : h \in prev}

\* ---------------------------------------------------------------- state
VARIABLES
    entry,          \* the method that was called
    conductor,      \* the class it belongs to
    prompt,         \* the prompt argument
    history,        \* the conversation_history argument
    force_mode,     \* QueryConductor.conduct_query force_mode ("" is None)
    pc,             \* position of the call
    analysis,       \* last complexity analysis computed
    mode,           \* mode argument of orchestrate_response
    breakdown,      \* result of the decomposition step
    idx,            \* loop index (1-based) of the running loop
    results,        \* per-task results collected so far
    llm_results,    \* results dict of orchestrate_response
    calls,          \* provider calls made so far, in order
    ret,            \* value returned to the caller
    exc,            \* exception that escaped to the caller ("" if none)
    events,         \* events yielded by conduct_streaming
    api_keys,       \* providers whose API key (or client) is configured
    response,       \* local `response` of the last adapter call
    alarm,          \* the process's SIGALRM timer: "off" or "armed"
    request,        \* the HTTP request being handled by a view
    http,           \* the HTTP response the view returned
    db,             \* rows of ChatSession, ChatMessage, LLMResponse, ChatBackup
    session,        \* request.session and the user bound to it
    sent,           \* server-sent events written to the client, in order
    daemon,         \* locals of ChatBackupDaemon inside one cycle
    trail           \* credential checks of this browser session, in order

vars == << entry, conductor, prompt, history, force_mode, pc, analysis, mode,
           breakdown, idx, results, llm_results, calls, ret, exc, events,
           api_keys, response, alarm, request, http, db, session, sent,
           daemon, trail >>

\* the state of the views and of the backup daemon
views_vars == << request, http, db, session, sent, daemon, trail >>

\* the state of the conductors and of the orchestrator
conductor_vars ==
    << entry, conductor, prompt, history, force_mode, pc, analysis, mode,
       breakdown, idx, results, llm_results, calls, ret, exc, events,
       api_keys, response >>

Providers == <<"gemini", "deepseek", "claude", "openai", "grok", "huggingface">>

ProviderSet == {Providers[i] : i \in 1..Len(Providers)}

NoBreakdown == [done |-> FALSE, fallback |-> FALSE, sub_tasks |-> <<>>]
NoReturn == [mode |-> "", keys |-> {}, text |-> "none", provider |-> ""]
NoResults == [n \in {} |-> 0]

\* JSON null
None == -1

NoRequest == [view |-> "", method |-> "", mode |-> "", prompt |-> FALSE,
              session_id |-> None]
NoResponse == [status |-> 0, success |-> FALSE, reply |-> "none",
               message_id |-> None, session_id |-> None, is_private |-> FALSE]
EmptyDB == [ChatSession |-> 0, ChatMessage |-> <<>>, LLMResponse |-> 0,
            updated_at |-> 0, ChatBackup |-> <<>>]
NoSession == [temp_username |-> FALSE, temp_password |-> FALSE,
              is_authenticated |-> FALSE]
Idle == [pc |-> "sleep", todo |-> <<>>, message_count |-> 0, messages |-> 0,
         done |-> {}, failed |-> {}]

\* before the first request: nothing stored, nobody logged in, timer off
InitViews ==
    /\ alarm = "off"
    /\ request = NoRequest
    /\ http = NoResponse
    /\ db = EmptyDB
    /\ session = NoSession
    /\ sent = <<>>
    /\ daemon = Idle
    /\ trail = <<>>

InitCommon ==
    /\ force_mode = ""
    /\ analysis = NoAnalysis
    /\ mode = ""
    /\ breakdown = NoBreakdown
    /\ idx = 0
    /\ results = <<>>
    /\ llm_results = NoResults
    /\ calls = <<>>
    /\ ret = NoReturn
    /\ exc = ""
    /\ events = <<>>
    /\ api_keys = ProviderSet
    /\ response = "unbound"
    /\ InitViews

\* ------------------------------------------- the analyzers as operations
InitAnalyze ==
    /\ entry = "analyze"
    /\ conductor \in {"QueryConductor", "SmartConductor", "BulletproofConductor"}
    /\ prompt \in PromptsUpTo(MaxFrags)
    /\ history \in HistoriesUpTo(MaxHist)
    /\ pc = "analyze"
    /\ InitCommon

AnalyzeFrame ==
    UNCHANGED << alarm, views_vars, api_keys, response, entry, conductor, prompt, history,
                 force_mode, mode, breakdown,
                 idx, results, llm_results, calls, ret, exc, events >>

QC_analyze ==
    /\ pc = "analyze"
    /\ conductor = "QueryConductor"
    /\ analysis' = analyze_query_complexity(prompt, history)
    /\ pc' = "analyzed"
    /\ AnalyzeFrame

SC_analyze ==
    /\ pc = "analyze"
    /\ conductor = "SmartConductor"
    /\ analysis' = _analyze_complexity(prompt)
    /\ pc' = "analyzed"
    /\ AnalyzeFrame

BC_analyze ==
    /\ pc = "analyze"
    /\ conductor = "BulletproofConductor"
    /\ analysis' = _quick_analysis(prompt)
    /\ pc' = "analyzed"
    /\ AnalyzeFrame

NextAnalyze == QC_analyze \/ SC_analyze \/ BC_analyze

SpecAnalyze == InitAnalyze /\ [][NextAnalyze]_vars

\* ------------------------------------------------------- provider calls
\* What one call of an orchestrator.query_* method can do, seen from the
\* conductor: return an answer, return the adapter's '<Provider> Error: ...'
\* sentinel, return an empty text, or raise (a stubbed or failing client).
Outcomes == {"answer", "sentinel", "empty", "raise"}

\* the outcomes of the call made for one sub-task (no code path tells an
\* empty text from another text there)
TaskOutcomes == {"answer", "sentinel", "raise"}

\* depends_on of a sub-question: null, or a 0-based index that names an
\* earlier, the same, a later or a missing sub-question
DependsOn == {None} \cup 0..MaxTasks

\* A sub-task record as the decomposition LLM may write it: with or without
\* its title/task/question field, with or without its query/prompt field.
\* Each conductor's records vary in the fields that conductor reads:
\* task, prompt and best_llm for QueryConductor, question and depends_on
\* for SmartConductor, title and query for BulletproofConductor.
TaskRecs(c) ==
    IF c = "QueryConductor"
    THEN [key : BOOLEAN, body : BOOLEAN, best_llm : {"gemini", "claude"},
          depends_on : {None}]
    ELSE IF c = "SmartConductor"
    THEN [key : BOOLEAN, body : {TRUE}, best_llm : {"gemini"},
          depends_on : DependsOn]
    ELSE [key : BOOLEAN, body : BOOLEAN, best_llm : {"gemini"},
          depends_on : {None}]

TaskSeqs(c, n) == UNION { [1..k -> TaskRecs(c)] : k \in 0..n }

\* What the decomposition call may do: return text that is no JSON, a JSON
\* array of sub-task records, a JSON object {"sub_tasks": [...]}, or a JSON
\* object without a sub_tasks entry and without any bracket.
\* The fmt "raise" is the call raising instead of returning.
DecompReplies(c) ==
    { [fmt |-> f, items |-> <<>>] : f \in {"raise", "text", "object_nokey"} }
    \cup { [fmt |-> f, items |-> s] :
             f \in {"array", "object"}, s \in TaskSeqs(c, MaxTasks) }

StaticTask ==
    [key |-> TRUE, body |-> TRUE, best_llm |-> "gemini", depends_on |-> None]

\* response_time_ms values of the providers that answer
Times == {1, 2}
Inf == 99

\* ---------------------------------------------------- provider adapters
\* What requests.post and response.json() do for one model variant: status
\* 200 with the expected JSON ("ok"), status 200 with another body
\* ("malformed"), another status ("non200"), or an exception such as a
\* network error or a timeout ("error").
HTTP == {"ok", "malformed", "non200", "error"}

\* a request sent without a configured key is not answered with status 200
HttpFor(key) == IF key THEN HTTP ELSE {"non200", "error"}

Attempts(n, key) == [1..n -> HttpFor(key)]

\* lengths of models_to_try
GrokModels == 2
HFModels == 5

claude_models(preferred_model) == IF preferred_model = "haiku" THEN 1 ELSE 2

\* index of the first attempt with status 200 and the expected JSON, or 0
FirstOk(hs) ==
    IF \E i \in DOMAIN hs : hs[i] = "ok"
    THEN CHOOSE i \in DOMAIN hs :
            hs[i] = "ok" /\ \A j \in 1..(i - 1) : hs[j] # "ok"
    ELSE 0

\* index of the first attempt with status 200, or 0
First200(hs) ==
    IF \E i \in DOMAIN hs : hs[i] \in {"ok", "malformed"}
    THEN CHOOSE i \in DOMAIN hs :
            /\ hs[i] \in {"ok", "malformed"}
            /\ \A j \in 1..(i - 1) : hs[j] \notin {"ok", "malformed"}
    ELSE 0

\* the local `response` after the first n attempts: the response of the
\* last requests.post that returned, unbound when every one raised
LastBound(hs, n) ==
    LET bound == {i \in 1..n : hs[i] # "error"}
    IN  IF bound = {} THEN "unbound"
        ELSE hs[CHOOSE i \in bound : \A j \in bound : j <= i]

\* the (text, metadata) pairs an adapter returns
Answered(extra) ==
    [text |-> "answer", raised |-> FALSE, response |-> "ok",
     meta |-> {"tokens", "response_time_ms", "model"} \cup extra]

ErrorSentinel(resp) ==
    [text |-> "sentinel", raised |-> FALSE, response |-> resp,
     meta |-> {"error"}]

Unavailable ==
    [text |-> "unavailable", raised |-> FALSE, response |-> "unbound",
     meta |-> {"error"}]

\* query_openai: key check, then one request inside the try
openai_reply(key, hs) ==
    IF ~key THEN Unavailable
    ELSE IF hs[1] = "ok" THEN Answered({})
    ELSE ErrorSentinel(LastBound(hs, 1))

\* query_deepseek: no key check, one request inside the try
deepseek_reply(hs) ==
    IF hs[1] = "ok"
    THEN Answered({"reasoning_tokens", "cost_tier", "thinking_mode"})
    ELSE ErrorSentinel(LastBound(hs, 1))

\* query_claude: key check, then the loop over models_to_try; a status
\* other than 200 and every exception go on to the next model
claude_reply(key, hs) ==
    IF ~key THEN Unavailable
    ELSE IF FirstOk(hs) # 0 THEN Answered({"model_tier"})
    ELSE ErrorSentinel(LastBound(hs, Len(hs)))

\* query_grok: no key check, the loop over models_to_try
grok_reply(hs) ==
    IF FirstOk(hs) # 0 THEN Answered({})
    ELSE ErrorSentinel(LastBound(hs, Len(hs)))

\* the local `response` of query_huggingface after its loop, which is left
\* at the first status 200
HF_response(hs) ==
    LastBound(hs, IF First200(hs) # 0 THEN First200(hs) ELSE Len(hs))

\* variant: reading the unbound `response` after the loop is not caught
huggingface_reply_unguarded(key, hs) ==
    IF ~key THEN Unavailable
    ELSE IF HF_response(hs) = "ok" THEN Answered({})
    ELSE IF HF_response(hs) = "unbound"
         THEN [text |-> "none", raised |-> TRUE, response |-> "unbound",
               meta |-> {}]
    ELSE ErrorSentinel(HF_response(hs))

\* query_huggingface: key check, the loop, then response.status_code and
\* response.json() after the loop; the UnboundLocalError of an unbound
\* `response` and the error of a malformed body reach the outer except
huggingface_reply(key, hs) ==
    IF ~key THEN Unavailable
    ELSE IF HF_response(hs) = "ok" THEN Answered({})
    ELSE ErrorSentinel(HF_response(hs))

\* What one Gemini call does: the chat answers ("ok"), response.text raises
\* ("malformed"), the SIGALRM handler raises TimeoutError ("timeout"),
\* start_chat or send_message raises ("error"), or signal.signal raises
\* because the call is not in the main thread ("signal_error").
GeminiOutcomes == {"ok", "malformed", "timeout", "error", "signal_error"}

\* query_gemini: client check, then the chat inside the two try blocks
gemini_reply(key, g) ==
    IF ~key THEN Unavailable
    ELSE IF g = "ok" THEN Answered({"tier"})
    ELSE ErrorSentinel(IF g = "malformed" THEN "malformed" ELSE "unbound")

\* `messages = conversation_history or []` followed by messages.append:
\* the adapters that get that far append to the caller's list when it is
\* not empty; query_gemini builds a list of its own
Appends(name, keys) ==
    name # "gemini" /\ (name \in {"deepseek", "grok"} \/ name \in keys)

UserMessage(content) == [role |-> "user", content |-> content]

\* the caller's conversation_history after the adapter `name` was called
\* with the prompt p (query_deepseek wraps it in its reasoning prompt)
HistoryAfter(name, keys, h, p) ==
    IF h # <<>> /\ Appends(name, keys)
    THEN Append(h, UserMessage(IF name = "deepseek"
                               THEN "reasoning_prompt" ELSE p))
    ELSE h

\* ------------------------------------------------------ LLMOrchestrator
\* orchestrate_response, mode "gemini_only" / "deepseek_only": one call, not
\* guarded by any try
orchestrate_single ==
    /\ pc = "orchestrate_response"
    /\ mode \in {"gemini_only", "deepseek_only"}
    /\ LET provider == IF mode = "gemini_only" THEN "gemini" ELSE "deepseek"
       IN  /\ calls' = Append(calls, provider)
           /\ history' = HistoryAfter(provider, api_keys, history, "prompt")
           /\ \E o \in Outcomes :
                IF o = "raise"
                THEN /\ exc' = "ProviderError"
                     /\ pc' = "raised"
                     /\ ret' = ret
                ELSE /\ ret' = [mode |-> mode,
                                keys |-> {"mode", "response", "metadata", "provider"},
                                text |-> o, provider |-> provider]
                     /\ pc' = "returned"
                     /\ exc' = exc
    /\ UNCHANGED << alarm, views_vars, api_keys, response, entry, conductor, prompt, force_mode,
                    analysis, mode, breakdown, idx, results, llm_results,
                    events >>

\* orchestrate_response, mode "power_duo": Gemini and DeepSeek are queried,
\* then the synthesis prompt is formatted with the name original_prompt,
\* which orchestrate_response does not define: NameError
orchestrate_power_duo ==
    /\ pc = "orchestrate_response"
    /\ mode = "power_duo"
    /\ \E og \in Outcomes, od \in Outcomes :
         IF og = "raise"
         THEN /\ calls' = Append(calls, "gemini")
              /\ exc' = "ProviderError"
              /\ history' = history
         ELSE /\ calls' = calls \o <<"gemini", "deepseek">>
              /\ exc' = IF od = "raise" THEN "ProviderError" ELSE "NameError"
              /\ history' = HistoryAfter("deepseek", api_keys, history,
                                         "prompt")
    /\ pc' = "raised"
    /\ UNCHANGED << alarm, views_vars, api_keys, response, entry, conductor, prompt, force_mode,
                    analysis, mode, breakdown, idx, results, llm_results, ret,
                    events >>

\* orchestrate_response, every other mode: entry of the loop over llm_queries
orchestrate_all ==
    /\ pc = "orchestrate_response"
    /\ mode \notin {"gemini_only", "deepseek_only", "power_duo"}
    /\ idx' = 1
    /\ llm_results' = NoResults
    /\ pc' = "llm_queries"
    /\ UNCHANGED << alarm, views_vars, api_keys, response, entry, conductor, prompt, history,
                    force_mode, analysis, mode,
                    breakdown, results, calls, ret, exc, events >>

\* what the loop stores for one provider: the replies that are empty or
\* start with 'Error:' or '<' raise ValueError, and every exception is
\* replaced by '<name> temporarily unavailable'
MultiReplies ==
    { [kind |-> "answer", time |-> t] : t \in Times }
    \cup { [kind |-> k, time |-> Inf] :
             k \in {"sentinel", "unavailable", "empty", "invalid", "raise"} }

StoredResult(reply) ==
    IF reply.kind \in {"empty", "invalid", "raise"}
    THEN [kind |-> "unavailable", time |-> Inf]
    ELSE reply

\* one iteration of `for name, query_func in llm_queries.items()`
orchestrate_query ==
    /\ pc = "llm_queries"
    /\ idx <= Len(Providers)
    /\ \E reply \in MultiReplies :
         llm_results' = [n \in DOMAIN llm_results \cup {Providers[idx]} |->
                            IF n = Providers[idx] THEN StoredResult(reply)
                            ELSE llm_results[n]]
    /\ calls' = Append(calls, Providers[idx])
    /\ history' = HistoryAfter(Providers[idx], api_keys, history, "prompt")
    /\ idx' = idx + 1
    /\ UNCHANGED << alarm, views_vars, api_keys, response, entry, conductor, prompt, force_mode,
                    pc, analysis, mode, breakdown, results, ret, exc, events >>

\* not r['response'].startswith('Error:') and
\* 'temporarily unavailable' not in r['response']
successful_responses(rs) ==
    { n \in DOMAIN rs : rs[n].kind # "unavailable" }

\* variant: the first provider of the dict is taken
_get_fastest_first(rs) ==
    Providers[1]

\* _get_fastest: min() over results.items() keyed by response_time_ms,
\* infinity when absent; min() returns the first minimal item in dict order
_get_fastest(rs) ==
    LET first == CHOOSE i \in 1..Len(Providers) :
                    /\ \A j \in 1..Len(Providers) :
                          rs[Providers[i]].time <= rs[Providers[j]].time
                    /\ \A j \in 1..(i - 1) :
                          rs[Providers[j]].time > rs[Providers[i]].time
    IN  Providers[first]

\* variant: the parallel result is the bare results map, without mode tag
parallel_result_untagged ==
    [mode |-> "parallel", keys |-> {"results"},
     text |-> "none", provider |-> ""]

\* the result of the mode 'parallel': {"mode": "parallel", "results": ...}
parallel_result ==
    [mode |-> "parallel", keys |-> {"mode", "results"},
     text |-> "none", provider |-> ""]

\* after the loop: the all-failed fallback, or the mode's own processing
orchestrate_finish ==
    /\ pc = "llm_queries"
    /\ idx > Len(Providers)
    /\ IF successful_responses(llm_results) = {}
       THEN /\ ret' = [mode |-> mode,
                       keys |-> {"mode", "response", "metadata", "provider"},
                       text |-> "all_unavailable", provider |-> "fallback"]
            /\ pc' = "returned"
            /\ UNCHANGED << calls, exc >>
       ELSE
       IF mode = "consensus"
       THEN \* _build_consensus: the Gemini synthesis is guarded
            /\ calls' = Append(calls, "gemini")
            /\ \E o \in Outcomes :
                 ret' = [mode |-> "consensus",
                         keys |-> {"mode", "final_response",
                                   "individual_responses", "metadata",
                                   "primary_synthesizer"},
                         text |-> IF o = "raise" THEN "concat" ELSE o,
                         provider |-> ""]
            /\ pc' = "returned"
            /\ exc' = exc
       ELSE IF mode = "fastest"
       THEN LET fastest == _get_fastest(llm_results)
            IN  /\ ret' = [mode |-> "fastest",
                           keys |-> {"mode", "provider", "response", "metadata"},
                           text |-> llm_results[fastest].kind,
                           provider |-> fastest]
                /\ pc' = "returned"
                /\ UNCHANGED << calls, exc >>
       ELSE IF mode = "best"
       THEN \* _get_best: the Gemini evaluation is not guarded
            /\ calls' = Append(calls, "gemini")
            /\ \E o \in Outcomes :
                 IF o = "raise"
                 THEN /\ exc' = "ProviderError"
                      /\ pc' = "raised"
                      /\ ret' = ret
                 ELSE \E best \in (IF o = "answer"
                                   THEN DOMAIN llm_results ELSE {"gemini"}) :
                      /\ ret' = [mode |-> "best",
                                 keys |-> {"mode", "provider", "response",
                                           "metadata", "all_responses",
                                           "evaluated_by"},
                                 text |-> llm_results[best].kind,
                                 provider |-> best]
                      /\ pc' = "returned"
                      /\ exc' = exc
       ELSE \* parallel, and every mode name not handled above
            /\ ret' = parallel_result
            /\ pc' = "returned"
            /\ UNCHANGED << calls, exc >>
    /\ UNCHANGED << alarm, views_vars, api_keys, response, entry, conductor, prompt, history,
                    force_mode, analysis, mode,
                    breakdown, idx, results, llm_results, events >>

\* -------------------------------------------------------- QueryConductor
\* conduct_query: forced mode, or analysis and choice of the strategy
conduct_query ==
    /\ pc = "conduct_query"
    /\ IF force_mode # ""
       THEN /\ mode' = force_mode
            /\ pc' = "orchestrate_response"
            /\ analysis' = analysis
       ELSE LET a == analyze_query_complexity(prompt, history)
            IN  /\ analysis' = a
                /\ IF a.requires_breakdown
                   THEN /\ pc' = "execute_orchestrated_breakdown"
                        /\ mode' = mode
                   ELSE /\ pc' = "orchestrate_response"
                        /\ mode' = a.recommended_strategy
    /\ UNCHANGED << alarm, views_vars, api_keys, response, entry, conductor, prompt, history,
                    force_mode, breakdown, idx,
                    results, llm_results, calls, ret, exc, events >>

\* break_down_query: json.loads of the whole reply, then
\* breakdown_data['sub_tasks'] is read for the log line; every exception
\* (the call raising, no JSON, a JSON array, no sub_tasks entry) gives the
\* one-task fallback
break_down_query(reply) ==
    IF reply.fmt = "object"
    THEN [done |-> TRUE, fallback |-> FALSE, sub_tasks |-> reply.items]
    ELSE [done |-> TRUE, fallback |-> TRUE, sub_tasks |-> <<StaticTask>>]

\* execute_orchestrated_breakdown, steps 1-3: analysis, the simple strategy
\* when no breakdown is required, else break_down_query and the power_duo
\* fallback when the breakdown is the fallback one
execute_orchestrated_breakdown ==
    /\ pc = "execute_orchestrated_breakdown"
    /\ LET a == analyze_query_complexity(prompt, history)
       IN  /\ analysis' = a
           /\ IF ~a.requires_breakdown
              THEN /\ mode' = a.recommended_strategy
                   /\ pc' = "orchestrate_response"
                   /\ UNCHANGED << breakdown, idx, calls >>
              ELSE /\ calls' = Append(calls, "gemini")
                   /\ \E reply \in DecompReplies(conductor) :
                        /\ breakdown' = break_down_query(reply)
                        /\ IF break_down_query(reply).fallback
                           THEN /\ mode' = "power_duo"
                                /\ pc' = "orchestrate_response"
                                /\ idx' = idx
                           ELSE /\ mode' = mode
                                /\ pc' = "sub_tasks"
                                /\ idx' = 1
    /\ UNCHANGED << alarm, views_vars, api_keys, response, entry, conductor, prompt, history,
                    force_mode, results,
                    llm_results, ret, exc, events >>

\* the provider a sub-task is dispatched to
QC_llm(sub_task) ==
    IF sub_task.best_llm \in {"gemini", "claude", "deepseek", "openai"}
    THEN sub_task.best_llm
    ELSE "gemini"

\* execute_orchestrated_breakdown, step 4: one iteration of the loop over
\* breakdown['sub_tasks']; sub_task['task'] is read before the try
QC_sub_task ==
    /\ pc = "sub_tasks"
    /\ idx <= Len(breakdown.sub_tasks)
    /\ LET sub_task == breakdown.sub_tasks[idx]
       IN  IF ~sub_task.key
           THEN /\ exc' = "KeyError"
                /\ pc' = "raised"
                /\ UNCHANGED << idx, results, calls, history >>
           ELSE /\ calls' = Append(calls, QC_llm(sub_task))
                /\ history' = HistoryAfter(QC_llm(sub_task), api_keys,
                                           history, "task_prompt")
                /\ \E o \in TaskOutcomes :
                     results' = Append(results,
                        [task |-> idx,
                         status |-> "",
                         text |-> IF o = "raise" THEN "failure_note" ELSE o,
                         error |-> o \in {"raise", "sentinel"},
                         outcome |-> o])
                /\ idx' = idx + 1
                /\ UNCHANGED << pc, exc >>
    /\ UNCHANGED << alarm, views_vars, api_keys, response, entry, conductor, prompt, force_mode,
                    analysis, mode, breakdown, llm_results, ret, events >>

\* execute_orchestrated_breakdown, step 5: synthesis by Gemini, guarded,
\* with the concatenation of the task responses as fallback
QC_synthesize ==
    /\ pc = "sub_tasks"
    /\ idx > Len(breakdown.sub_tasks)
    /\ calls' = Append(calls, "gemini")
    /\ \E o \in Outcomes :
         ret' = [mode |-> "orchestrated_breakdown",
                 keys |-> {"mode", "complexity_analysis", "breakdown",
                           "sub_task_results", "final_response", "metadata",
                           "conductor_used"},
                 text |-> IF o = "raise" THEN "concat" ELSE o,
                 provider |-> ""]
    /\ pc' = "returned"
    /\ UNCHANGED << alarm, views_vars, api_keys, response, entry, conductor, prompt, history,
                    force_mode, analysis, mode,
                    breakdown, idx, results, llm_results, exc, events >>

\* -------------------------------------------------------- SmartConductor
\* conduct_query, steps 1-3 (no project: the prompt is not enriched)
SC_conduct_query ==
    /\ pc = "SmartConductor.conduct_query"
    /\ LET a == _analyze_complexity(prompt)
       IN  /\ analysis' = a
           /\ pc' = IF a.level = "simple" THEN "_execute_simple"
                    ELSE IF a.level = "moderate" THEN "_execute_moderate"
                    ELSE "_execute_complex"
    /\ UNCHANGED << alarm, views_vars, api_keys, response, entry, conductor, prompt, history,
                    force_mode, mode, breakdown,
                    idx, results, llm_results, calls, ret, exc, events >>

SC_return(m, o) ==
    [mode |-> m,
     keys |-> {"mode", "response", "metadata", "conductor_used"},
     text |-> o, provider |-> ""]

\* _execute_simple: one Gemini call; an exception reaches the except clause
\* of conduct_query
_execute_simple ==
    /\ pc = "_execute_simple"
    /\ calls' = Append(calls, "gemini")
    /\ \E o \in Outcomes :
         IF o = "raise"
         THEN pc' = "gemini_fallback" /\ ret' = ret
         ELSE pc' = "returned" /\ ret' = SC_return("simple_gemini", o)
    /\ UNCHANGED << alarm, views_vars, api_keys, response, entry, conductor, prompt, history,
                    force_mode, analysis, mode,
                    breakdown, idx, results, llm_results, exc, events >>

\* _execute_moderate: one Gemini call with the enhanced prompt
_execute_moderate ==
    /\ pc = "_execute_moderate"
    /\ calls' = Append(calls, "gemini")
    /\ \E o \in Outcomes :
         IF o = "raise"
         THEN pc' = "gemini_fallback" /\ ret' = ret
         ELSE pc' = "returned" /\ ret' = SC_return("moderate_enhanced", o)
    /\ UNCHANGED << alarm, views_vars, api_keys, response, entry, conductor, prompt, history,
                    force_mode, analysis, mode,
                    breakdown, idx, results, llm_results, exc, events >>

\* the breakdown step of _execute_complex: re.search(r'\[.*\]') on the reply
\* and json.loads of the match; no match, or the call raising, is a failed
\* breakdown
SC_sub_questions(reply) ==
    IF reply.fmt \in {"array", "object"}
    THEN [done |-> TRUE, fallback |-> FALSE, sub_tasks |-> reply.items]
    ELSE [done |-> TRUE, fallback |-> TRUE, sub_tasks |-> <<>>]

_execute_complex ==
    /\ pc = "_execute_complex"
    /\ calls' = Append(calls, "gemini")
    /\ \E reply \in DecompReplies(conductor) :
         /\ breakdown' = SC_sub_questions(reply)
         /\ IF SC_sub_questions(reply).fallback
            THEN pc' = "complex_fallback" /\ idx' = idx
            ELSE pc' = "sub_questions" /\ idx' = 1
    /\ UNCHANGED << alarm, views_vars, api_keys, response, entry, conductor, prompt, history,
                    force_mode, analysis, mode,
                    results, llm_results, ret, exc, events >>

\* _execute_complex, breakdown failed: Gemini with the full prompt, inside
\* the except clause, so that an exception leaves _execute_complex
SC_complex_fallback ==
    /\ pc = "complex_fallback"
    /\ calls' = Append(calls, "gemini")
    /\ \E o \in Outcomes :
         IF o = "raise"
         THEN pc' = "gemini_fallback" /\ ret' = ret
         ELSE pc' = "returned" /\ ret' = SC_return("complex_fallback", o)
    /\ UNCHANGED << alarm, views_vars, api_keys, response, entry, conductor, prompt, history,
                    force_mode, analysis, mode,
                    breakdown, idx, results, llm_results, exc, events >>

\* the keys of the answers dict when sub-question i (0-based) is reached:
\* every earlier sub-question has got an answer or a failure note
AnswersSoFar(rs) == {rs[j].task - 1 : j \in 1..Len(rs)}

\* variant: the answer of depends_on is spliced in whenever it is not null
SC_context_unchecked(sq, answers) ==
    sq.depends_on

\* the index whose answer is put in front of the sub-question as 'Context
\* from previous answer', None when there is no context:
\* `if sq.get('depends_on') is not None` and `if dep_idx in answers`
SC_context(sq, answers) ==
    IF sq.depends_on # None /\ sq.depends_on \in answers
    THEN sq.depends_on
    ELSE None

\* _execute_complex: one iteration of the loop over sub_questions; the
\* whole body is inside the try
SC_sub_question ==
    /\ pc = "sub_questions"
    /\ idx <= Len(breakdown.sub_tasks)
    /\ LET sq == breakdown.sub_tasks[idx]
       IN  IF ~sq.key
           THEN /\ results' = Append(results,
                    [task |-> idx, status |-> "", text |-> "failure_note",
                     error |-> FALSE, outcome |-> "nocall",
                     context |-> None])
                /\ calls' = calls
           ELSE /\ calls' = Append(calls, "gemini")
                /\ \E o \in TaskOutcomes :
                     results' = Append(results,
                        [task |-> idx, status |-> "",
                         text |-> IF o = "raise" THEN "failure_note" ELSE o,
                         error |-> FALSE, outcome |-> o,
                         context |-> SC_context(sq, AnswersSoFar(results))])
    /\ idx' = idx + 1
    /\ UNCHANGED << alarm, views_vars, api_keys, response, entry, conductor, prompt, history,
                    force_mode, pc, analysis,
                    mode, breakdown, llm_results, ret, exc, events >>

\* _execute_complex: synthesis by Gemini, guarded, with the raw answers as
\* fallback
SC_synthesize ==
    /\ pc = "sub_questions"
    /\ idx > Len(breakdown.sub_tasks)
    /\ calls' = Append(calls, "gemini")
    /\ \E o \in Outcomes :
         ret' = IF o = "raise"
                THEN SC_return("complex_raw", "concat")
                ELSE [mode |-> "complex_iterative",
                      keys |-> {"mode", "response", "metadata",
                                "conductor_used", "sub_questions_count",
                                "successful_answers"},
                      text |-> o, provider |-> ""]
    /\ pc' = "returned"
    /\ UNCHANGED << alarm, views_vars, api_keys, response, entry, conductor, prompt, history,
                    force_mode, analysis, mode,
                    breakdown, idx, results, llm_results, exc, events >>

\* conduct_query, except clause: Gemini with the plain prompt; when this
\* call raises too, a new Exception is raised
SC_gemini_fallback ==
    /\ pc = "gemini_fallback"
    /\ calls' = Append(calls, "gemini")
    /\ \E o \in Outcomes :
         IF o = "raise"
         THEN pc' = "raised" /\ exc' = "Exception" /\ ret' = ret
         ELSE /\ pc' = "returned"
              /\ exc' = exc
              /\ ret' = [mode |-> "gemini_fallback",
                         keys |-> {"mode", "response", "metadata",
                                   "conductor_used", "fallback_reason"},
                         text |-> o, provider |-> ""]
    /\ UNCHANGED << alarm, views_vars, api_keys, response, entry, conductor, prompt, history,
                    force_mode, analysis, mode,
                    breakdown, idx, results, llm_results, events >>

\* -------------------------------------------------- BulletproofConductor
Event(status, progress) ==
    [status |-> status, progress |-> progress, response |-> "none"]

Final(status, text) ==
    [status |-> status, progress |-> 100, response |-> text]

\* conduct_streaming up to the choice between sub-tasks and direct
\* processing (no project: the prompt is not enriched)
conduct_streaming ==
    /\ pc = "conduct_streaming"
    /\ LET a == _quick_analysis(prompt)
       IN  /\ analysis' = a
           /\ IF a.level \in {"complex", "multi_faceted"}
              THEN /\ events' = << Event("analyzing", 10), Event("analyzed", 20),
                                   Event("breaking_down", 25) >>
                   /\ pc' = "_create_sub_tasks"
              ELSE /\ events' = << Event("analyzing", 10), Event("analyzed", 20),
                                   Event("processing", 50) >>
                   /\ pc' = "_process_simple"
    /\ UNCHANGED << alarm, views_vars, api_keys, response, entry, conductor, prompt, history,
                    force_mode, mode, breakdown,
                    idx, results, llm_results, calls, ret, exc >>

\* variant: the fallback split has one part
BC_parse_sub_tasks_single(reply) ==
    IF reply.fmt \in {"array", "object"}
    THEN [done |-> TRUE, fallback |-> FALSE, sub_tasks |-> reply.items]
    ELSE [done |-> TRUE, fallback |-> TRUE, sub_tasks |-> <<StaticTask>>]

\* _create_sub_tasks for a prompt without 'law'/'legal': re.search of
\* r'\[.*\]' in the reply and json.loads of the match; everything else,
\* and every exception, falls through to the two-part split
BC_parse_sub_tasks(reply) ==
    IF reply.fmt \in {"array", "object"}
    THEN [done |-> TRUE, fallback |-> FALSE, sub_tasks |-> reply.items]
    ELSE [done |-> TRUE, fallback |-> TRUE,
          sub_tasks |-> <<StaticTask, StaticTask>>]

\* variant: one fixed task for a legal prompt
BC_legal_sub_tasks_one ==
    [done |-> TRUE, fallback |-> FALSE, sub_tasks |-> <<StaticTask>>]

\* _create_sub_tasks for a prompt with 'law' or 'legal': four fixed tasks
BC_legal_sub_tasks ==
    [done |-> TRUE, fallback |-> FALSE,
     sub_tasks |-> <<StaticTask, StaticTask, StaticTask, StaticTask>>]

_create_sub_tasks ==
    /\ pc = "_create_sub_tasks"
    /\ IF AnyIn(prompt, BC_subtask_words)
       THEN /\ breakdown' = BC_legal_sub_tasks
            /\ calls' = calls
       ELSE /\ calls' = Append(calls, "gemini")
            /\ \E reply \in DecompReplies(conductor) :
                 breakdown' = BC_parse_sub_tasks(reply)
    /\ events' = Append(events, Event("tasks_created", 30))
    /\ idx' = 1
    /\ pc' = "process_tasks"
    /\ UNCHANGED << alarm, views_vars, api_keys, response, entry, conductor, prompt, history,
                    force_mode, analysis, mode,
                    results, llm_results, ret, exc >>

\* _process_task: the provider call and the read of task['query'] are
\* inside a try whose except clause returns a note; nothing is raised
_process_task(task, o) ==
    IF ~task.body \/ o = "raise"
    THEN [raised |-> FALSE, text |-> "section_note"]
    ELSE [raised |-> FALSE, text |-> o]

\* variant: the loop's progress starts at 50
BC_progress_from50(i, n) == 50 + (60 * i) \div n

\* int(30 + 60 * (i / n)) for the 0-based index i (equal to the float
\* computation of the source for n <= 6)
BC_progress(i, n) == 30 + (60 * i) \div n

\* one iteration of the loop over sub_tasks: task['title'] is read for the
\* 'processing' event outside the inner try, so that a record without
\* title diverts to the emergency fallback
BC_process_task ==
    /\ pc = "process_tasks"
    /\ idx <= Len(breakdown.sub_tasks)
    /\ LET task == breakdown.sub_tasks[idx]
           n == Len(breakdown.sub_tasks)
       IN  IF ~task.key
           THEN /\ events' = Append(events, Event("error_fallback", 95))
                /\ pc' = "emergency"
                /\ UNCHANGED << idx, results, calls >>
           ELSE /\ calls' = IF task.body THEN Append(calls, "gemini") ELSE calls
                /\ \E o \in TaskOutcomes :
                     LET r == _process_task(task, o)
                     IN  IF r.raised
                         THEN /\ results' = Append(results,
                                    [task |-> idx, status |-> "failed",
                                     text |-> "failure_note", error |-> TRUE,
                                     outcome |-> IF task.body THEN o ELSE "nocall"])
                              /\ events' = Append(events,
                                    Event("processing", BC_progress(idx - 1, n)))
                         ELSE /\ results' = Append(results,
                                    [task |-> idx, status |-> "success",
                                     text |-> r.text, error |-> FALSE,
                                     outcome |-> IF task.body THEN o ELSE "nocall"])
                              /\ events' = events \o
                                    << Event("processing", BC_progress(idx - 1, n)),
                                       Event("task_complete", BC_progress(idx, n)) >>
                /\ idx' = idx + 1
                /\ pc' = pc
    /\ UNCHANGED << alarm, views_vars, api_keys, response, entry, conductor, prompt, history,
                    force_mode, analysis, mode,
                    breakdown, llm_results, ret, exc >>

\* _synthesize_results: the Gemini call is guarded; the fallback
\* concatenates the results whose status is 'success'
_synthesize_results(rs, o) ==
    IF o = "raise"
    THEN IF \E i \in 1..Len(rs) : rs[i].status = "success"
         THEN "concat"
         ELSE "unable"
    ELSE o

\* after the loop: the 'synthesizing' event, the synthesis, the 'complete'
\* event
BC_synthesize ==
    /\ pc = "process_tasks"
    /\ idx > Len(breakdown.sub_tasks)
    /\ calls' = Append(calls, "gemini")
    /\ \E o \in Outcomes :
         events' = events \o << Event("synthesizing", 90),
                                Final("complete", _synthesize_results(results, o)) >>
    /\ pc' = "returned"
    /\ UNCHANGED << alarm, views_vars, api_keys, response, entry, conductor, prompt, history,
                    force_mode, analysis, mode,
                    breakdown, idx, results, llm_results, ret, exc >>

\* _process_simple: one unguarded Gemini call; an exception reaches the
\* except clause of conduct_streaming
_process_simple ==
    /\ pc = "_process_simple"
    /\ calls' = Append(calls, "gemini")
    /\ \E o \in Outcomes :
         IF o = "raise"
         THEN /\ events' = Append(events, Event("error_fallback", 95))
              /\ pc' = "emergency"
         ELSE /\ events' = Append(events, Final("complete", o))
              /\ pc' = "returned"
    /\ UNCHANGED << alarm, views_vars, api_keys, response, entry, conductor, prompt, history,
                    force_mode, analysis, mode,
                    breakdown, idx, results, llm_results, ret, exc >>

\* variant: the emergency call is not guarded
BC_emergency_unguarded ==
    /\ pc = "emergency"
    /\ calls' = Append(calls, "gemini")
    /\ \E o \in Outcomes :
         IF o = "raise"
         THEN /\ pc' = "raised"
              /\ exc' = "ProviderError"
              /\ events' = events
         ELSE /\ pc' = "returned"
              /\ exc' = exc
              /\ events' = Append(events, Final("complete", o))
    /\ UNCHANGED << alarm, views_vars, api_keys, response, entry, conductor, prompt, history,
                    force_mode, analysis,
                    mode, breakdown, idx, results, llm_results, ret >>

\* the except clause of conduct_streaming: Gemini once more, and the
\* 'failed' event with the apology when this call raises too
BC_emergency ==
    /\ pc = "emergency"
    /\ calls' = Append(calls, "gemini")
    /\ \E o \in Outcomes :
         events' = Append(events,
                     IF o = "raise" THEN Final("failed", "apology")
                     ELSE Final("complete", o))
    /\ pc' = "returned"
    /\ UNCHANGED << alarm, views_vars, api_keys, response, entry, conductor, prompt, history,
                    force_mode, analysis, mode,
                    breakdown, idx, results, llm_results, ret, exc >>

\* ---------------------------------------------------------- TaskBreakdown
\* _create_tasks_from_query: eight fixed tasks for a legal prompt, five for
\* a prompt of more than 100 words, one otherwise
_create_tasks_from_query(p) ==
    LET n == IF AnyIn(p, TB_legal_words) THEN 8
             ELSE IF WordCount(p) > 100 THEN 5
             ELSE 1
    IN  [i \in 1..n |-> StaticTask]

execute_task_breakdown ==
    /\ pc = "execute_task_breakdown"
    /\ breakdown' = [done |-> TRUE, fallback |-> FALSE,
                     sub_tasks |-> _create_tasks_from_query(prompt)]
    /\ idx' = 1
    /\ pc' = "tasks"
    /\ UNCHANGED << alarm, views_vars, api_keys, response, entry, conductor, prompt, history,
                    force_mode, analysis, mode,
                    results, llm_results, calls, ret, exc, events >>

\* _process_single_task: the except clause raises the exception again
_process_single_task(task, o) ==
    IF ~task.body \/ o = "raise"
    THEN [raised |-> TRUE, text |-> "failure_note"]
    ELSE [raised |-> FALSE, text |-> o]

\* one iteration of the loop over tasks
TB_task ==
    /\ pc = "tasks"
    /\ idx <= Len(breakdown.sub_tasks)
    /\ calls' = Append(calls, "gemini")
    /\ \E o \in TaskOutcomes :
         LET r == _process_single_task(breakdown.sub_tasks[idx], o)
         IN  results' = Append(results,
                [task |-> idx,
                 status |-> IF r.raised THEN "failed" ELSE "success",
                 text |-> r.text,
                 error |-> r.raised,
                 outcome |-> o])
    /\ idx' = idx + 1
    /\ UNCHANGED << alarm, views_vars, api_keys, response, entry, conductor, prompt, history,
                    force_mode, pc, analysis,
                    mode, breakdown, llm_results, ret, exc, events >>

successful_tasks(rs) ==
    Cardinality({i \in 1..Len(rs) : rs[i].status = "success"})

\* after the loop: the synthesis call is not guarded
TB_synthesize ==
    /\ pc = "tasks"
    /\ idx > Len(breakdown.sub_tasks)
    /\ IF successful_tasks(results) > 0
       THEN /\ calls' = Append(calls, "gemini")
            /\ \E o \in Outcomes :
                 IF o = "raise"
                 THEN pc' = "raised" /\ exc' = "ProviderError" /\ ret' = ret
                 ELSE /\ pc' = "returned"
                      /\ exc' = exc
                      /\ ret' = [mode |-> "task_breakdown",
                                 keys |-> {"mode", "response", "task_results",
                                           "metadata", "conductor_used",
                                           "successful_tasks", "total_tasks"},
                                 text |-> o, provider |-> ""]
       ELSE /\ ret' = [mode |-> "task_breakdown_failed",
                       keys |-> {"mode", "response", "task_results",
                                 "conductor_used"},
                       text |-> "all_tasks_failed", provider |-> ""]
            /\ pc' = "returned"
            /\ UNCHANGED << calls, exc >>
    /\ UNCHANGED << alarm, views_vars, api_keys, response, entry, conductor, prompt, history,
                    force_mode, analysis, mode,
                    breakdown, idx, results, llm_results, events >>

\* ------------------------------------------------------ the conductors
P_simple == [frags |-> {<<"h","e","l","l","o">>}, filler |-> 3, qmarks |-> 1]
P_list == [frags |-> {<<"l","i","s","t">>}, filler |-> 3, qmarks |-> 0]
P_moderate == [frags |-> {<<"a","n","a","l","y","z","e">>}, filler |-> 101, qmarks |-> 2]
P_legal == [frags |-> {<<"l","e","g","a","l">>}, filler |-> 249, qmarks |-> 3]
P_long == [frags |-> {<<"t","h","e","n">>}, filler |-> 301, qmarks |-> 3]

ConductorPrompts == {P_simple, P_list, P_moderate, P_legal, P_long}

ForceModes ==
    {"consensus", "fastest", "best", "parallel", "gemini_only",
     "deepseek_only", "power_duo", "orchestrated_breakdown"}

Entries ==
    { <<"QueryConductor", "conduct_query">>,
      <<"QueryConductor", "execute_orchestrated_breakdown">>,
      <<"SmartConductor", "SmartConductor.conduct_query">>,
      <<"BulletproofConductor", "conduct_streaming">>,
      <<"TaskBreakdown", "execute_task_breakdown">> }

Init ==
    /\ \E e \in Entries : conductor = e[1] /\ entry = e[2] /\ pc = e[2]
    /\ prompt \in ConductorPrompts
    /\ history \in HistoriesUpTo(1)
    /\ force_mode \in (IF entry = "conduct_query" THEN ForceModes \cup {""} ELSE {""})
    /\ analysis = NoAnalysis
    /\ mode = ""
    /\ breakdown = NoBreakdown
    /\ idx = 0
    /\ results = <<>>
    /\ llm_results = NoResults
    /\ calls = <<>>
    /\ ret = NoReturn
    /\ exc = ""
    /\ events = <<>>
    /\ api_keys = ProviderSet
    /\ response = "unbound"
    /\ InitViews

Next ==
    \/ conduct_query
    \/ execute_orchestrated_breakdown
    \/ QC_sub_task
    \/ QC_synthesize
    \/ orchestrate_single
    \/ orchestrate_power_duo
    \/ orchestrate_all
    \/ orchestrate_query
    \/ orchestrate_finish
    \/ SC_conduct_query
    \/ _execute_simple
    \/ _execute_moderate
    \/ _execute_complex
    \/ SC_complex_fallback
    \/ SC_sub_question
    \/ SC_synthesize
    \/ SC_gemini_fallback
    \/ conduct_streaming
    \/ _create_sub_tasks
    \/ BC_process_task
    \/ BC_synthesize
    \/ _process_simple
    \/ BC_emergency
    \/ execute_task_breakdown
    \/ TB_task
    \/ TB_synthesize

Spec == Init /\ [][Next]_vars

\* ------------------------------------------------ claims on the analyzers
\* keyword lists of each analyzer
MatchesKeyword(c, p) ==
    IF c = "QueryConductor"
        THEN AnyIn(p, QC_file_words \cup QC_list_words \cup QC_analysis_words
                        \cup QC_research_words \cup QC_parts_words)
    ELSE IF c = "SmartConductor"
        THEN AnyIn(p, SC_legal_words \cup SC_analysis_words
                        \cup SC_parts_words \cup SC_file_words)
    ELSE AnyIn(p, BC_legal_words)

\* the word count above which each analyzer sets its long-context indicator
LongThreshold(c) == IF c = "SmartConductor" THEN 300 ELSE 200

\* C5 as stated: below the long threshold and without keyword matches every
\* prompt is 'simple', whatever its question marks and the history.
C5_SimpleWhateverQuestionMarks ==
    (pc = "analyzed" /\ WordCount(prompt) <= LongThreshold(conductor)
        /\ ~MatchesKeyword(conductor, prompt))
    => analysis.level = "simple"

\* C5 amended: a prompt below the long threshold, without keyword matches,
\* with at most one question mark, and moreover without numbered-list
\* marker (SmartConductor), with an empty history (QueryConductor), with at
\* most 100 words (BulletproofConductor), is classified 'simple'.
C5_SimpleWithoutIndicators ==
    (pc = "analyzed" /\ WordCount(prompt) <= LongThreshold(conductor)
        /\ ~MatchesKeyword(conductor, prompt)
        /\ QuestionCount(prompt) <= 1
        /\ (conductor = "SmartConductor" => ~has_numbered_list(prompt))
        /\ (conductor = "QueryConductor" => history = <<>>)
        /\ (conductor = "BulletproofConductor" => WordCount(prompt) <= 100))
    => analysis.level = "simple"

C5_Witness ==
    /\ pc = "analyzed"
    /\ conductor = "BulletproofConductor"
    /\ WordCount(prompt) = 100
    /\ QuestionCount(prompt) = 1
    /\ ~MatchesKeyword(conductor, prompt)
    /\ analysis.level = "simple"

\* C6 as stated: more than one question mark and more than 300 words give
\* 'complex' or 'multi_faceted' in every analyzer.
C6_TwoIndicatorsComplex ==
    (pc = "analyzed" /\ QuestionCount(prompt) > 1 /\ WordCount(prompt) > 300)
    => analysis.level \in {"complex", "multi_faceted"}

\* C6 amended: more than one question mark and more than 300 words give
\* 'complex' or 'multi_faceted' in QueryConductor and SmartConductor; in
\* BulletproofConductor they do so exactly when the prompt also has at least
\* three question marks, a digit 1-9 or a legal keyword, and give 'moderate'
\* otherwise.
C6_TwoIndicatorsComplexExceptQuick ==
    (pc = "analyzed" /\ QuestionCount(prompt) > 1 /\ WordCount(prompt) > 300)
    => IF conductor = "BulletproofConductor"
           /\ QuestionCount(prompt) < 3
           /\ ~BC_has_multiple_parts(prompt)
           /\ ~BC_has_legal(prompt)
       THEN analysis.level = "moderate"
       ELSE analysis.level \in {"complex", "multi_faceted"}

C6_Witness ==
    /\ pc = "analyzed"
    /\ conductor = "SmartConductor"
    /\ QuestionCount(prompt) = 2
    /\ WordCount(prompt) = 301
    /\ analysis.score = 5
    /\ analysis.level = "complex"

InitBC == Init /\ entry = "conduct_streaming"

NextBC ==
    \/ conduct_streaming
    \/ _create_sub_tasks
    \/ BC_process_task
    \/ BC_synthesize
    \/ _process_simple
    \/ BC_emergency

SpecBC == InitBC /\ [][NextBC]_vars /\ WF_vars(NextBC)

\* ------------------------------------------- claims on the conductors
Terminal(e) == e.status \in {"complete", "failed"}

TerminalEvents == {i \in 1..Len(events) : Terminal(events[i])}

\* the task loop of the running conductor is over (by running out of
\* tasks or by being left)
LoopOver ==
    /\ breakdown.done
    /\ ~breakdown.fallback \/ conductor = "BulletproofConductor"
    /\ \/ pc \in {"returned", "raised", "emergency"}
       \/ conductor = "SmartConductor" /\ pc = "gemini_fallback"

\* C1: QueryConductor.conduct_query never lets an exception escape and
\* returns a result that carries a text, whatever the providers do.
C1_ConductQueryNeverRaises ==
    entry = "conduct_query"
    => /\ pc # "raised"
       /\ exc = ""
       /\ pc = "returned" => ret.text # "none"

\* C2: SmartConductor.conduct_query never lets an exception escape, also
\* when the strategy and the Gemini fallback both fail.
C2_SmartConductNeverRaises ==
    conductor = "SmartConductor" => (pc # "raised" /\ exc = "")

\* no exception has escaped conduct_streaming, at most one terminal event
\* was yielded, nothing is yielded after it, and a finished run has yielded
\* exactly one, as its last event, with a response field
C3_Safe ==
    /\ exc = ""
    /\ pc # "raised"
    /\ Cardinality(TerminalEvents) <= 1
    /\ TerminalEvents # {} => pc = "returned"
    /\ pc = "returned" =>
          /\ TerminalEvents = {Len(events)}
          /\ events[Len(events)].response # "none"

\* C3: every run of conduct_streaming ends, no exception escapes it, at
\* most one terminal event ('complete' or 'failed') is ever yielded, and
\* once the run has ended exactly one was yielded, as the last event, with
\* a response field.
C3_OneTerminalEvent == [] C3_Safe /\ <>(pc = "returned")

C3_Witness ==
    /\ conductor = "BulletproofConductor"
    /\ pc = "returned"
    /\ Len(results) >= 1
    /\ \E i \in 1..Len(events) : events[i].status = "error_fallback"
    /\ events[Len(events)].status = "failed"

\* C4: with a force_mode among the strategies the conductor recommends, no
\* analysis is made and the result is that of the strategy force_mode names.
C4_ForcedModeRuns ==
    (entry = "conduct_query"
        /\ force_mode \in {"fastest", "gemini_only", "power_duo",
                           "orchestrated_breakdown"})
    => /\ analysis = NoAnalysis
       /\ pc # "raised"
       /\ pc = "returned" => ret.mode = force_mode

\* C8: decomposition never raises and never yields an empty task list (for
\* SmartConductor the failed breakdown, answered by one direct call, counts
\* as its one-task fallback).
C8_DecompositionNonEmpty ==
    (breakdown.done /\ ~(conductor = "SmartConductor" /\ breakdown.fallback))
    => Len(breakdown.sub_tasks) >= 1

\* C9: once the task loop is over there is exactly one result per sub-task,
\* in task order: no failing task keeps the later ones from running.
C9_OneResultPerTask ==
    LoopOver
    => /\ Len(results) = Len(breakdown.sub_tasks)
       /\ \A i \in 1..Len(results) : results[i].task = i

\* C10: a sub-task whose provider call raised is recorded as failed with a
\* failure note as answer, and one recorded as success had a provider call
\* that did not raise.
C10_FailedIffRaised ==
    \A i \in 1..Len(results) :
        /\ results[i].outcome = "raise" =>
              /\ results[i].text \in {"failure_note", "section_note"}
              /\ results[i].status \in {"failed", ""}
        /\ results[i].status = "success" => results[i].outcome # "raise"
        /\ conductor = "BulletproofConductor" =>
              (results[i].status = "failed" <=> results[i].outcome = "raise")

\* ------------------------------------------------ claims on the synthesis
\* the task loop has run over the whole decomposition and the synthesis
\* step is what comes next, or has been taken
SynthesisReached ==
    /\ breakdown.done
    /\ idx > Len(breakdown.sub_tasks)
    /\ Len(results) = Len(breakdown.sub_tasks)

\* a sub-task result that holds an answer of the provider
Succeeded(r) ==
    r.outcome = "answer" /\ r.status \in {"success", ""}

\* the text of the final answer of a finished run
FinalText ==
    IF conductor = "BulletproofConductor"
    THEN events[Len(events)].response
    ELSE ret.text

\* C11: the synthesis step never raises: whatever the synthesis call does,
\* no conductor variant lets an exception escape once its task loop is over.
C11_SynthesisNeverRaises ==
    SynthesisReached => (pc # "raised" /\ exc = "")

\* C12: with at least one successful sub-task result, the final answer of
\* the synthesis step is never the empty text of the synthesis call.
C12_SynthesisNonEmpty ==
    (SynthesisReached /\ pc = "returned"
        /\ \E i \in 1..Len(results) : Succeeded(results[i]))
    => FinalText # "empty"

\* ------------------------------------------------- claims on the routing
\* C13 as stated: a prompt classified 'simple' is answered by exactly one
\* provider call and the result's mode is 'simple'.
C13_SimpleOneCall ==
    (conductor \in {"QueryConductor", "SmartConductor"}
        /\ analysis.level = "simple" /\ pc = "returned")
    => (Len(calls) = 1 /\ ret.mode = "simple")

\* C13: a prompt SmartConductor classifies 'simple' is answered by one
\* Gemini call with mode 'simple_gemini', or, when that call raises, by one
\* more Gemini call with mode 'gemini_fallback'; a prompt QueryConductor
\* classifies 'simple' is answered by the strategy 'fastest', which queries
\* each of the six providers once and returns mode 'fastest'.
C13_SimpleStrategy ==
    (analysis.level = "simple" /\ pc \in {"returned", "raised"})
    => /\ conductor = "SmartConductor" =>
            \/ pc = "returned" /\ ret.mode = "simple_gemini"
                  /\ calls = <<"gemini">>
            \/ pc = "returned" /\ ret.mode = "gemini_fallback"
                  /\ calls = <<"gemini", "gemini">>
            \/ pc = "raised" /\ calls = <<"gemini", "gemini">>
       /\ conductor = "QueryConductor" =>
            /\ pc = "returned"
            /\ ret.mode = "fastest"
            /\ calls = Providers

C13_Witness ==
    /\ conductor = "QueryConductor"
    /\ analysis.level = "simple"
    /\ pc = "returned"
    /\ ret.mode = "fastest"
    /\ ret.provider = "claude"
    /\ calls = Providers

\* the scenario prompt: three question marks, 250 words, the word 'legal'
LegalScenario(p) ==
    /\ InPrompt(p, <<"l","e","g","a","l">>)
    /\ WordCount(p) = 250
    /\ QuestionCount(p) = 3

\* the conductors that analyze the prompt themselves
Analyzed == analysis # NoAnalysis

\* C14 as stated: each conductor classifies the scenario prompt 'complex'
\* or 'multi_faceted', decomposes it, and returns at least two sub-task
\* entries.
C14_LegalDecomposed ==
    (LegalScenario(prompt) /\ Analyzed)
    => /\ analysis.level \in {"complex", "multi_faceted"}
       /\ pc \in {"returned", "raised"} =>
             (breakdown.done /\ Len(results) >= 2)

\* C14: on the scenario prompt BulletproofConductor classifies 'complex' or
\* 'multi_faceted', takes the four fixed legal sub-tasks and ends with four
\* results; QueryConductor classifies 'multi_faceted', calls
\* break_down_query, and a returned result holds one entry per sub-task of
\* the breakdown the LLM wrote; SmartConductor scores 4, classifies
\* 'moderate' and makes no decomposition.
C14_LegalScenarioRouting ==
    (LegalScenario(prompt) /\ Analyzed)
    => /\ conductor = "BulletproofConductor" =>
            /\ analysis.level \in {"complex", "multi_faceted"}
            /\ breakdown.done => breakdown = BC_legal_sub_tasks
            /\ pc = "returned" =>
                  /\ Len(results) = 4
                  /\ events[Len(events)].status = "complete"
       /\ conductor = "QueryConductor" =>
            /\ analysis.level = "multi_faceted"
            /\ pc \in {"returned", "raised"} => breakdown.done
            /\ pc = "returned" =>
                  /\ ret.mode = "orchestrated_breakdown"
                  /\ Len(results) = Len(breakdown.sub_tasks)
       /\ conductor = "SmartConductor" =>
            /\ analysis.score = 4
            /\ analysis.level = "moderate"
            /\ ~breakdown.done
            /\ results = <<>>

C14_Witness ==
    /\ LegalScenario(prompt)
    /\ conductor = "BulletproofConductor"
    /\ pc = "returned"
    /\ Len(breakdown.sub_tasks) = 4
    /\ Len(results) = 4
    /\ results[3].outcome = "raise"

\* --------------------------------- claims on the failed decomposition
\* C15 as stated: a decomposition reply that cannot be parsed gives a
\* one-task fallback, that task is executed and synthesized, and the final
\* answer is that task's answer (for SmartConductor the one direct call
\* counts as the task).
C15_FallbackSingleTask ==
    (breakdown.fallback /\ conductor # "SmartConductor")
    => /\ Len(breakdown.sub_tasks) = 1
       /\ pc # "raised"
       /\ pc = "returned" =>
             (Len(results) = 1 /\ FinalText = results[1].text)

\* C15: when the decomposition reply cannot be parsed (or the call raises),
\* SmartConductor answers with one direct Gemini call (mode
\* 'complex_fallback', or 'gemini_fallback' when it raises) and has no
\* sub-question; BulletproofConductor takes a two-part fallback, executes
\* both parts and completes with the synthesis of two results;
\* QueryConductor gets a one-task fallback that it does not execute: it
\* hands the prompt to the strategy 'power_duo'.
C15_FallbackPerConductor ==
    breakdown.fallback
    => /\ conductor = "SmartConductor" =>
            /\ breakdown.sub_tasks = <<>>
            /\ results = <<>>
            /\ pc = "returned" =>
                  \/ ret.mode = "complex_fallback"
                        /\ calls = <<"gemini", "gemini">>
                  \/ ret.mode = "gemini_fallback"
                        /\ calls = <<"gemini", "gemini", "gemini">>
       /\ conductor = "BulletproofConductor" =>
            /\ Len(breakdown.sub_tasks) = 2
            /\ pc = "returned" =>
                  /\ Len(results) = 2
                  /\ calls = <<"gemini", "gemini", "gemini", "gemini">>
                  /\ events[Len(events)].status = "complete"
       /\ conductor = "QueryConductor" =>
            /\ Len(breakdown.sub_tasks) = 1
            /\ results = <<>>
            /\ mode = "power_duo"
            /\ pc = "returned" => ret.mode # "orchestrated_breakdown"

C15_Witness ==
    /\ conductor = "BulletproofConductor"
    /\ breakdown.fallback
    /\ pc = "returned"
    /\ Len(results) = 2
    /\ events[Len(events)].response = "answer"

\* C16: when break_down_query falls back in
\* QueryConductor.execute_orchestrated_breakdown and no provider call
\* raises, the power_duo strategy returns a result and no exception
\* reaches the caller.
C16_ParseFailureAbsorbed ==
    (conductor = "QueryConductor" /\ breakdown.fallback
        /\ exc # "ProviderError")
    => /\ pc # "raised"
       /\ exc = ""
       /\ pc = "returned" => ret.mode = "power_duo"

\* ----------------------------------------- claims on orchestrate_response
\* every provider of the loop has been queried and none has given an
\* answer: each raised, was unavailable, or returned its error sentinel
AllProvidersFailed ==
    /\ DOMAIN llm_results = ProviderSet
    /\ \A n \in DOMAIN llm_results :
          llm_results[n].kind \in {"unavailable", "sentinel"}

\* C17: in the multi-provider modes, when every one of the six providers
\* fails, orchestrate_response returns the 'All AI models are currently
\* unavailable' message with the provider 'fallback', and raises nothing.
C17_AllFailedMessage ==
    (AllProvidersFailed /\ pc \in {"returned", "raised"})
    => /\ pc = "returned"
       /\ ret.text = "all_unavailable"
       /\ ret.provider = "fallback"

\* ------------------------------------------ the adapters as operations
\* An orchestrator with every key configured, with one missing, or with
\* none; its adapters are called one after another with the same
\* conversation_history list.
KeyConfigs ==
    {ProviderSet, {}} \cup { ProviderSet \ {n} : n \in ProviderSet }

InitAdapters ==
    /\ entry = "adapter"
    /\ conductor = "LLMOrchestrator"
    /\ prompt = P_simple
    /\ history \in HistoriesUpTo(MaxHist)
    /\ pc = "adapter"
    /\ force_mode = ""
    /\ analysis = NoAnalysis
    /\ mode = ""
    /\ breakdown = NoBreakdown
    /\ idx = 0
    /\ results = <<>>
    /\ llm_results = NoResults
    /\ calls = <<>>
    /\ ret = NoReturn
    /\ exc = ""
    /\ events = <<>>
    /\ api_keys \in KeyConfigs
    /\ response = "unbound"
    /\ InitViews

\* one call of the adapter `name` that ends as `reply`
AdapterCall(name, reply) ==
    /\ pc = "adapter"
    /\ Len(calls) < MaxCalls
    /\ calls' = Append(calls, name)
    /\ response' = reply.response
    /\ history' = HistoryAfter(name, api_keys, history, "prompt")
    /\ IF reply.raised
       THEN /\ pc' = "raised"
            /\ exc' = "UnboundLocalError"
            /\ ret' = ret
       ELSE /\ pc' = pc
            /\ exc' = exc
            /\ ret' = [mode |-> "", keys |-> reply.meta, text |-> reply.text,
                       provider |-> name]
    /\ UNCHANGED << views_vars, api_keys, entry, conductor, prompt,
                    force_mode, analysis,
                    mode, breakdown, idx, results, llm_results, events >>

query_openai ==
    /\ alarm' = alarm
    /\ \E hs \in Attempts(1, "openai" \in api_keys) :
         AdapterCall("openai", openai_reply("openai" \in api_keys, hs))

\* the timer after one call of query_gemini: untouched without a client
\* and when signal.signal is refused; cancelled after send_message
\* returned and in the TimeoutError clause; still armed when start_chat or
\* send_message raised something else, which the outer except absorbs
gemini_alarm(key, g, timer) ==
    IF ~key \/ g = "signal_error" THEN timer
    ELSE IF g = "error" THEN "armed"
    ELSE "off"

query_gemini ==
    \E g \in GeminiOutcomes :
        /\ alarm' = gemini_alarm("gemini" \in api_keys, g, alarm)
        /\ AdapterCall("gemini", gemini_reply("gemini" \in api_keys, g))

query_claude ==
    /\ alarm' = alarm
    /\ \E preferred_model \in {"haiku", "sonnet"} :
         \E hs \in Attempts(claude_models(preferred_model),
                            "claude" \in api_keys) :
             AdapterCall("claude", claude_reply("claude" \in api_keys, hs))

query_deepseek ==
    /\ alarm' = alarm
    /\ \E hs \in Attempts(1, "deepseek" \in api_keys) :
         AdapterCall("deepseek", deepseek_reply(hs))

query_grok ==
    /\ alarm' = alarm
    /\ \E hs \in Attempts(GrokModels, "grok" \in api_keys) :
         AdapterCall("grok", grok_reply(hs))

query_huggingface ==
    /\ alarm' = alarm
    /\ \E hs \in Attempts(HFModels, "huggingface" \in api_keys) :
         AdapterCall("huggingface",
                     huggingface_reply("huggingface" \in api_keys, hs))

NextAdapters ==
    \/ query_openai
    \/ query_gemini
    \/ query_claude
    \/ query_deepseek
    \/ query_grok
    \/ query_huggingface

SpecAdapters == InitAdapters /\ [][NextAdapters]_vars

\* --------------------------------------------------- claims on the adapters
\* C18: no adapter call raises, and every call that did not end with a
\* well-formed status-200 response (missing key, network error, non-200 on
\* every model variant tried, malformed body) returns a text that is not an
\* answer together with metadata that has an 'error' field; a call that did
\* end with one returns the answer without 'error'.
C18_AdaptersAbsorbFailures ==
    conductor = "LLMOrchestrator"
    => /\ pc # "raised"
       /\ exc = ""
       /\ calls # <<>> =>
             IF response = "ok"
             THEN ret.text = "answer" /\ "error" \notin ret.keys
             ELSE ret.text \in {"sentinel", "unavailable"}
                     /\ "error" \in ret.keys

C18_Witness ==
    /\ conductor = "LLMOrchestrator"
    /\ Len(calls) = 2
    /\ calls[2] = "huggingface"
    /\ "huggingface" \in api_keys
    /\ response = "unbound"
    /\ ret.provider = "huggingface"
    /\ ret.text = "sentinel"
    /\ "error" \in ret.keys

\* --------------------------------------------- claims on the history
\* C19: no provider call and no step of orchestrate_response or of a
\* conductor changes the caller's conversation history.
C19_HistoryUnchanged == [][history' = history]_vars

\* ------------------------------------------ claims on the task sequence
\* C20: the sub-task results are recorded one after another in list order,
\* and in SmartConductor._execute_complex sub-question i (0-based) gets the
\* answer of sub-question d as context exactly when its depends_on is d and
\* d < i; with a depends_on that is null or names the same, a later or a
\* missing index the provider is called without context and the
\* sub-question is not failed for it.
C20_DependsOnContext ==
    /\ \A k \in 1..Len(results) : results[k].task = k
    /\ conductor = "SmartConductor" =>
          \A k \in 1..Len(results) :
              LET sq == breakdown.sub_tasks[k]
                  i == k - 1
              IN  sq.key =>
                    /\ results[k].outcome # "nocall"
                    /\ \A d \in 0..MaxTasks :
                          results[k].context = d
                             <=> (sq.depends_on = d /\ d < i)
                    /\ (sq.depends_on = None \/ sq.depends_on >= i)
                          => results[k].context = None

C20_Witness ==
    /\ conductor = "SmartConductor"
    /\ pc = "returned"
    /\ Len(results) = 2
    /\ breakdown.sub_tasks[1].depends_on = 1
    /\ results[1].context = None
    /\ results[1].outcome = "answer"
    /\ breakdown.sub_tasks[2].depends_on = 0
    /\ results[2].context = 0

\* -------------------------------------------- claims on the result shape
\* the result has an entry that holds the final text
HasFinalText(r) == {"response", "final_response"} \cap r.keys # {}

C22_ModeRunsItsStrategy ==
    (entry = "conduct_query" /\ force_mode # ""
        /\ pc \in {"returned", "raised"} /\ exc # "ProviderError")
    => /\ pc = "returned"
       /\ mode = "gemini_only" =>
             (calls = <<"gemini">> /\ ret.provider = "gemini")
       /\ mode = "deepseek_only" =>
             (calls = <<"deepseek">> /\ ret.provider = "deepseek")
       /\ mode = "power_duo" =>
             /\ calls = <<"gemini", "deepseek", "gemini">>
             /\ ret.mode = "power_duo"
       /\ mode \notin {"gemini_only", "deepseek_only", "power_duo"} =>
             /\ Len(calls) >= Len(Providers)
             /\ SubSeq(calls, 1, Len(Providers)) = Providers
             /\ DOMAIN llm_results = ProviderSet

\* the providers that answered successfully
Answering == {n \in DOMAIN llm_results : llm_results[n].kind = "answer"}

\* C23: when at least one provider answered, the result of the mode
\* 'fastest' is the answer of a provider that answered, with the least
\* response_time_ms among those that answered; a provider stored as
\* unavailable or with its error sentinel is not the one returned.
C23_FastestAnswered ==
    (pc = "returned" /\ ret.mode = "fastest" /\ Answering # {})
    => /\ ret.provider \in Answering
       /\ ret.text = "answer"
       /\ \A n \in Answering :
             llm_results[ret.provider].time <= llm_results[n].time

C23_Witness ==
    /\ pc = "returned"
    /\ ret.mode = "fastest"
    /\ ret.provider = "grok"
    /\ llm_results["gemini"].kind = "unavailable"
    /\ llm_results["deepseek"].kind = "sentinel"
    /\ llm_results["claude"].kind = "answer"
    /\ llm_results["claude"].time = 2
    /\ llm_results["grok"].time = 1

\* ------------------------------------------------------------------ C27
\* C27: the progress values of the events of one run of conduct_streaming
\* never decrease, lie in 0..100, and the terminal event that ends the run
\* has progress 100, whatever the number of sub-tasks and wherever the run
\* is diverted to the emergency fallback.
C27_ProgressMonotone ==
    entry = "conduct_streaming" =>
        /\ \A i \in 1..Len(events) :
             /\ events[i].progress \in 0..100
             /\ \A j \in i..Len(events) :
                  events[i].progress <= events[j].progress
        /\ pc = "returned" =>
              /\ Len(events) > 0
              /\ Terminal(events[Len(events)])
              /\ events[Len(events)].progress = 100

\* a run diverted to the fallback after a sub-task was completed
C27_Witness ==
    /\ entry = "conduct_streaming"
    /\ pc = "returned"
    /\ \E i, j \in 1..Len(events) :
         /\ i < j
         /\ events[i].status = "task_complete"
         /\ events[j].status = "error_fallback"
    /\ events[Len(events)].progress = 100

\* a run whose decomposition has no sub-task
C27_WitnessNoTasks ==
    /\ entry = "conduct_streaming"
    /\ pc = "returned"
    /\ breakdown.done
    /\ Len(breakdown.sub_tasks) = 0
    /\ events[Len(events)].status = "complete"

\* ------------------------------------------------------------------ C28
\* timeout_handler: the timer left armed expires while the code that
\* called the adapter runs, and TimeoutError is raised there
timeout_handler ==
    /\ pc = "adapter"
    /\ alarm = "armed"
    /\ alarm' = "off"
    /\ pc' = "raised"
    /\ exc' = "TimeoutError"
    /\ UNCHANGED << views_vars, api_keys, response, entry, conductor, prompt,
                    history, force_mode, analysis, mode, breakdown, idx,
                    results, llm_results, calls, ret, events >>

\* the adapter calls followed by the delivery of a pending SIGALRM
SpecAlarm == InitAdapters /\ [][NextAdapters \/ timeout_handler]_vars

\* C28: whenever query_gemini has returned, on every path, the timer it
\* armed is cancelled, and no TimeoutError of that timer reaches the code
\* that runs after the call.
C28_AlarmCancelled ==
    conductor = "LLMOrchestrator" =>
        /\ pc = "adapter" => alarm = "off"
        /\ exc # "TimeoutError"

\* ------------------------------------------------------------ send_message
MaxMessages == 4

\* the mode values named in send_message
DocumentedModes ==
    {"consensus", "fastest", "best", "parallel", "gemini_only",
     "deepseek_only", "power_duo", "quickie", "privacy"}

\* variant: no mode is private
is_private_never(m) == FALSE

is_private(m) == m = "privacy"

\* session.messages on a ChatSession that was never saved: an empty
\* result or ValueError, depending on the release of the ORM
UnsavedRelation == {"empty", "ValueError"}

Row(s, role) == [session |-> s, role |-> role]

Response500 == [NoResponse EXCEPT !.status = 500]

\* the keys of the dict send_message builds from query_gemini's return
gemini_with_context == {"mode", "response", "metadata", "provider"}

\* send_message for an authenticated POST with a JSON body. The Google
\* Sheets actions found in the reply are guarded and touch no table.
send_message ==
    /\ pc = "view"
    /\ Len(db.ChatMessage) < MaxMessages
    /\ \E m \in DocumentedModes, p \in BOOLEAN,
          sid \in {None} \cup 1..(db.ChatSession + 1),
          g \in GeminiOutcomes, orm \in UnsavedRelation :
         LET private == is_private(m)
             found == sid # None /\ sid <= db.ChatSession
             created == sid = None /\ ~private
             sess == IF found THEN sid
                     ELSE IF created THEN db.ChatSession + 1
                     ELSE None
             db1 == [db EXCEPT !.ChatSession = IF created THEN @ + 1 ELSE @]
             db2 == [db1 EXCEPT !.ChatMessage =
                        IF private THEN @ ELSE Append(@, Row(sess, "user"))]
             reply == gemini_reply("gemini" \in api_keys, g)
             db3 == [db2 EXCEPT !.ChatMessage =
                        IF private THEN @
                        ELSE Append(@, Row(sess, "assistant")),
                               !.updated_at = IF private THEN @ ELSE @ + 1]
         IN  /\ request' = [view |-> "send_message", method |-> "POST",
                            mode |-> m, prompt |-> p, session_id |-> sid]
             /\ IF ~p
                THEN /\ http' = [NoResponse EXCEPT !.status = 400]
                     /\ UNCHANGED << db, alarm >>
                     /\ calls' = <<>>
                ELSE IF sid # None /\ ~found
                THEN /\ http' = Response500
                     /\ UNCHANGED << db, alarm >>
                     /\ calls' = <<>>
                ELSE IF private /\ sid = None /\ orm = "ValueError"
                THEN /\ http' = Response500
                     /\ UNCHANGED << db, alarm >>
                     /\ calls' = <<>>
                ELSE /\ calls' = <<"gemini">>
                     /\ alarm' = gemini_alarm("gemini" \in api_keys, g, alarm)
                     /\ IF m = "parallel" /\ "results" \notin gemini_with_context
                        THEN /\ http' = Response500
                             /\ db' = db2
                        ELSE /\ db' = db3
                             /\ http' =
                                  [status |-> 200, success |-> TRUE,
                                   reply |-> reply.text,
                                   message_id |-> IF private THEN None
                                                  ELSE Len(db3.ChatMessage),
                                   session_id |-> IF private THEN None
                                                  ELSE sess,
                                   is_private |-> private]
    /\ UNCHANGED << session, sent, daemon, trail, api_keys, response, entry,
                    conductor, prompt, history, force_mode, pc, analysis,
                    mode, breakdown, idx, results, llm_results, ret, exc,
                    events >>

InitSend ==
    /\ entry = "send_message"
    /\ conductor = "views"
    /\ prompt = P_simple
    /\ history = <<>>
    /\ pc = "view"
    /\ InitCommon

SpecSend == InitSend /\ [][send_message]_vars

\* C24: a request with a documented mode and a non-empty prompt whose
\* Gemini call returned ends with the success response carrying the reply,
\* never with the 500 response.
C24_DocumentedModesSucceed ==
    (/\ request.view = "send_message"
     /\ request.mode \in DocumentedModes
     /\ request.prompt
     /\ calls = <<"gemini">>)
    => /\ http.status = 200
       /\ http.success
       /\ http.reply # "none"

\* C25: a privacy-mode request leaves every table as it was, whether it
\* succeeds or fails, and its success response has null session_id and
\* message_id.
C25_PrivacyPersistsNothing ==
    [][(request'.view = "send_message" /\ request'.mode = "privacy")
       => /\ db' = db
          /\ http'.status = 200 =>
                /\ http'.session_id = None
                /\ http'.message_id = None
                /\ http'.is_private]_vars

\* a private request answered after rows of an ordinary one were stored
C25_Witness ==
    /\ request.view = "send_message"
    /\ request.mode = "privacy"
    /\ request.session_id # None
    /\ http.status = 200
    /\ http.reply = "answer"
    /\ http.session_id = None
    /\ db.ChatSession = 1
    /\ Len(db.ChatMessage) = 2

\* -------------------------------------------------- send_message_streaming
\* session.messages.order_by('created_at')[:-1]: the ORM refuses a
\* negative bound, unless its check is compiled away
NegativeSlice == {"rejected", "sliced"}

\* the outcomes of the two writes that follow a 'complete' event
Saves == {"saved", "create_raised", "save_raised"}

\* send_message_streaming up to the StreamingHttpResponse
send_message_streaming ==
    /\ pc = "view"
    /\ \E method \in {"GET", "POST"}, p \in BOOLEAN,
          sid \in 1..(db.ChatSession + 1), orm \in NegativeSlice :
         /\ request' = [view |-> "send_message_streaming", method |-> method,
                        mode |-> "", prompt |-> p, session_id |-> sid]
         /\ IF method # "POST"
            THEN /\ http' = [NoResponse EXCEPT !.status = 405]
                 /\ pc' = "responded"
                 /\ db' = db
            ELSE IF ~p
            THEN /\ http' = [NoResponse EXCEPT !.status = 400]
                 /\ pc' = "responded"
                 /\ db' = db
            ELSE IF sid > db.ChatSession
            THEN /\ http' = Response500
                 /\ pc' = "responded"
                 /\ db' = db
            ELSE /\ db' = [db EXCEPT !.ChatMessage = Append(@, Row(sid, "user"))]
                 /\ IF orm = "rejected"
                    THEN /\ http' = Response500
                         /\ pc' = "responded"
                    ELSE /\ http' = [NoResponse EXCEPT !.status = 200,
                                                       !.session_id = sid]
                         /\ pc' = "conduct_streaming"
    /\ UNCHANGED << alarm, session, sent, daemon, trail, api_keys, response,
                    entry, conductor, prompt, history, force_mode, analysis,
                    mode, breakdown, idx, results, llm_results, calls, ret,
                    exc, events >>

\* variant: every terminal event is saved
saves_terminal(e) == e.status \in {"complete", "failed"}

\* the test that leads event_stream to the save
saves(e) == e.status = "complete"

StreamOpen ==
    /\ http.status = 200
    /\ request.view = "send_message_streaming"
    /\ \A i \in 1..Len(sent) : sent[i] \notin {"done", "error"}

\* one turn of the loop of event_stream: the event is written to the
\* client, then a 'complete' event is stored and the session touched; an
\* exception of either write ends the stream with an 'error' event
event_stream ==
    /\ StreamOpen
    /\ Len(sent) < Len(events)
    /\ LET e == events[Len(sent) + 1]
           row == Row(http.session_id, "assistant")
       IN  IF saves(e)
           THEN \E w \in Saves :
                  /\ sent' = IF w = "saved" THEN Append(sent, e.status)
                             ELSE sent \o << e.status, "error" >>
                  /\ db' = [db EXCEPT
                              !.ChatMessage = IF w = "create_raised" THEN @
                                              ELSE Append(@, row),
                              !.updated_at = IF w = "saved" THEN @ + 1 ELSE @]
           ELSE /\ sent' = Append(sent, e.status)
                /\ db' = db
    /\ UNCHANGED << alarm, request, http, session, daemon, trail,
                    conductor_vars >>

\* after the loop: the completion signal
event_stream_done ==
    /\ StreamOpen
    /\ pc = "returned"
    /\ Len(sent) = Len(events)
    /\ sent' = Append(sent, "done")
    /\ UNCHANGED << alarm, request, http, db, session, daemon, trail,
                    conductor_vars >>

InitStream ==
    /\ conductor = "BulletproofConductor"
    /\ entry = "send_message_streaming"
    /\ pc = "view"
    /\ prompt \in ConductorPrompts
    /\ history \in HistoriesUpTo(1)
    /\ force_mode = ""
    /\ analysis = NoAnalysis
    /\ mode = ""
    /\ breakdown = NoBreakdown
    /\ idx = 0
    /\ results = <<>>
    /\ llm_results = NoResults
    /\ calls = <<>>
    /\ ret = NoReturn
    /\ exc = ""
    /\ events = <<>>
    /\ api_keys = ProviderSet
    /\ response = "unbound"
    /\ alarm = "off"
    /\ request = NoRequest
    /\ http = NoResponse
    /\ db = [EmptyDB EXCEPT !.ChatSession = 1]
    /\ session = [NoSession EXCEPT !.is_authenticated = TRUE]
    /\ sent = <<>>
    /\ daemon = Idle
    /\ trail = <<>>

NextStream ==
    \/ send_message_streaming
    \/ NextBC
    \/ event_stream
    \/ event_stream_done

SpecStream == InitStream /\ [][NextStream]_vars

AssistantRows == {i \in 1..Len(db.ChatMessage) : db.ChatMessage[i].role = "assistant"}

Emitted(status) == \E i \in 1..Len(sent) : sent[i] = status

\* C26: a streaming request stores at most one assistant message, stores
\* it only once the conductor's 'complete' event was written to the client
\* and never in a run that ended 'failed'; 'done' is written only when
\* every conductor event was written before it and the message and the
\* session of a 'complete' run were stored.
C26_StreamingSave ==
    entry = "send_message_streaming" =>
        /\ Cardinality(AssistantRows) <= 1
        /\ AssistantRows # {} => Emitted("complete")
        /\ (\E i \in 1..Len(events) : events[i].status = "failed")
              => AssistantRows = {}
        /\ Emitted("done") =>
              /\ pc = "returned"
              /\ sent = [i \in 1..(Len(events) + 1) |->
                            IF i <= Len(events) THEN events[i].status
                            ELSE "done"]
              /\ Emitted("complete") =>
                    Cardinality(AssistantRows) = 1 /\ db.updated_at = 1

\* the emergency answer of a diverted run was written, stored, and the
\* stream closed with 'done'
C26_Witness ==
    /\ entry = "send_message_streaming"
    /\ Emitted("error_fallback")
    /\ Emitted("complete")
    /\ Emitted("done")
    /\ Cardinality(AssistantRows) = 1
    /\ db.ChatMessage[Len(db.ChatMessage)].role = "assistant"

\* ------------------------------------------------------------------ login
MaxTrail == 3

Submitted == {"correct", "wrong"}

Redirect(to) == [status |-> 302, location |-> to, error |-> FALSE]

Render(template, error) ==
    [status |-> 200, location |-> template, error |-> error]

\* login_view: step 1, user name and password against the configured pair
login_view ==
    /\ pc = "view"
    /\ \E method \in {"GET", "POST"}, username \in Submitted,
          password \in Submitted :
         /\ request' = [view |-> "login_view", method |-> method,
                        username |-> username, password |-> password]
         /\ IF session.is_authenticated
            THEN /\ http' = Redirect("home")
                 /\ UNCHANGED << session, trail >>
            ELSE IF method = "POST"
            THEN IF username = "correct" /\ password = "correct"
                 THEN /\ Len(trail) < MaxTrail
                      /\ session' = [session EXCEPT !.temp_username = TRUE,
                                                    !.temp_password = TRUE]
                      /\ trail' = Append(trail, "password")
                      /\ http' = Redirect("login_2fa")
                 ELSE /\ Len(trail) < MaxTrail
                      /\ trail' = Append(trail, "wrong_password")
                      /\ http' = Render("login.html", TRUE)
                      /\ session' = session
            ELSE /\ http' = Render("login.html", FALSE)
                 /\ UNCHANGED << session, trail >>
    /\ UNCHANGED << alarm, db, sent, daemon, conductor_vars >>

\* variant: step 2 does not ask for step 1
has_step1_always(s) == TRUE

\* request.session.get('temp_username') is truthy
has_step1(s) == s.temp_username

\* login_2fa_view: step 2, the code; the temporary credentials are popped
\* before login() binds the user to the session
login_2fa_view ==
    /\ pc = "view"
    /\ \E method \in {"GET", "POST"}, code \in Submitted :
         /\ request' = [view |-> "login_2fa_view", method |-> method,
                        code |-> code]
         /\ IF session.is_authenticated
            THEN /\ http' = Redirect("home")
                 /\ UNCHANGED << session, trail >>
            ELSE IF ~has_step1(session)
            THEN /\ http' = Redirect("login")
                 /\ UNCHANGED << session, trail >>
            ELSE IF method = "POST"
            THEN IF code = "correct"
                 THEN /\ Len(trail) < MaxTrail
                      /\ session' = [temp_username |-> FALSE,
                                     temp_password |-> FALSE,
                                     is_authenticated |-> TRUE]
                      /\ trail' = Append(trail, "code")
                      /\ http' = Redirect("home")
                 ELSE /\ Len(trail) < MaxTrail
                      /\ trail' = Append(trail, "wrong_code")
                      /\ http' = Render("login_2fa.html", TRUE)
                      /\ session' = session
            ELSE /\ http' = Render("login_2fa.html", FALSE)
                 /\ UNCHANGED << session, trail >>
    /\ UNCHANGED << alarm, db, sent, daemon, conductor_vars >>

\* logout_view: logout() flushes the session; the browser starts a new one
logout_view ==
    /\ pc = "view"
    /\ request' = [view |-> "logout_view", method |-> "GET"]
    /\ session' = NoSession
    /\ trail' = <<>>
    /\ http' = Redirect("login")
    /\ UNCHANGED << alarm, db, sent, daemon, conductor_vars >>

InitLogin ==
    /\ entry = "login_view"
    /\ conductor = "views"
    /\ prompt = P_simple
    /\ history = <<>>
    /\ pc = "view"
    /\ InitCommon

NextLogin ==
    \/ login_view
    \/ login_2fa_view
    \/ logout_view

SpecLogin == InitLogin /\ [][NextLogin]_vars

MaxSessions == 2
MaxBackups == 2

\* the number of ChatMessage rows of session s
MessagesOf(s) ==
    Cardinality({i \in 1..Len(db.ChatMessage) : db.ChatMessage[i].session = s})

\* the web application stores one more message of a session (the create
\* calls of send_message), at any moment of the daemon's cycle
add_message ==
    /\ Len(db.ChatMessage) < MaxMessages
    /\ \E s \in 1..db.ChatSession, role \in {"user", "assistant"} :
         db' = [db EXCEPT !.ChatMessage = Append(@, Row(s, role))]
    /\ UNCHANGED << alarm, request, http, session, sent, daemon, trail,
                    conductor_vars >>

\* backup_all_sessions: the active sessions, to be visited one by one
backup_all_sessions ==
    /\ daemon.pc = "sleep"
    /\ Len(db.ChatBackup) < MaxBackups
    /\ daemon' = [Idle EXCEPT !.pc = "count",
                              !.todo = [i \in 1..db.ChatSession |-> i]]
    /\ UNCHANGED << alarm, request, http, db, session, sent, trail,
                    conductor_vars >>

\* the except clause of backup_session: the error is logged and the loop
\* of backup_all_sessions goes on with the next session
SessionFailed ==
    [daemon EXCEPT !.pc = IF Len(daemon.todo) > 1 THEN "count" ELSE "sleep",
                   !.todo = Tail(@),
                   !.failed = @ \cup {Head(daemon.todo)}]

\* backup_session, first query: messages.count() for backup_data
backup_count ==
    /\ daemon.pc = "count"
    /\ \/ daemon' = [daemon EXCEPT !.pc = "iterate",
                                   !.message_count = MessagesOf(Head(daemon.todo))]
       \/ daemon' = SessionFailed
    /\ UNCHANGED << alarm, request, http, db, session, sent, trail,
                    conductor_vars >>

\* backup_session, second query: the loop over messages evaluates the
\* queryset; the rows it fetched are what count() returns from now on
backup_iterate ==
    /\ daemon.pc = "iterate"
    /\ daemon' = [daemon EXCEPT !.pc = "create",
                                !.messages = MessagesOf(Head(daemon.todo))]
    /\ UNCHANGED << alarm, request, http, db, session, sent, trail,
                    conductor_vars >>

\* the ChatBackup row: message_count from the evaluated queryset,
\* backup_data with the count read first and the messages read second
backup_data(d) ==
    [session |-> Head(d.todo), message_count |-> d.messages,
     data_message_count |-> d.message_count, data_messages |-> d.messages]

\* backup_session, the write: ChatBackup.objects.create, then the file
backup_create ==
    /\ daemon.pc = "create"
    /\ \/ /\ db' = [db EXCEPT !.ChatBackup = Append(@, backup_data(daemon))]
          /\ daemon' = [daemon EXCEPT
                          !.pc = IF Len(daemon.todo) > 1 THEN "count"
                                 ELSE "sleep",
                          !.todo = Tail(@),
                          !.done = @ \cup {Head(daemon.todo)}]
       \/ /\ db' = db
          /\ daemon' = SessionFailed
    /\ UNCHANGED << alarm, request, http, session, sent, trail,
                    conductor_vars >>

InitBackup ==
    /\ entry = "backup_all_sessions"
    /\ conductor = "ChatBackupDaemon"
    /\ prompt = P_simple
    /\ history = <<>>
    /\ pc = "daemon"
    /\ force_mode = ""
    /\ analysis = NoAnalysis
    /\ mode = ""
    /\ breakdown = NoBreakdown
    /\ idx = 0
    /\ results = <<>>
    /\ llm_results = NoResults
    /\ calls = <<>>
    /\ ret = NoReturn
    /\ exc = ""
    /\ events = <<>>
    /\ api_keys = ProviderSet
    /\ response = "unbound"
    /\ alarm = "off"
    /\ request = NoRequest
    /\ http = NoResponse
    /\ \E n \in 1..MaxSessions : db = [EmptyDB EXCEPT !.ChatSession = n]
    /\ session = NoSession
    /\ sent = <<>>
    /\ daemon = Idle
    /\ trail = <<>>

NextBackup ==
    \/ add_message
    \/ backup_all_sessions
    \/ backup_count
    \/ backup_iterate
    \/ backup_create

SpecBackup == InitBackup /\ [][NextBackup]_vars

\* C30: in every backup the stored message_count and the message_count of
\* backup_data both equal the number of messages in backup_data, although
\* messages are added meanwhile; and when a cycle is over every active
\* session was either backed up or failed by itself.
C30_BackupConsistent ==
    entry = "backup_all_sessions" =>
        /\ \A i \in 1..Len(db.ChatBackup) :
             /\ db.ChatBackup[i].message_count = db.ChatBackup[i].data_messages
             /\ db.ChatBackup[i].data_message_count
                   = db.ChatBackup[i].data_messages
        /\ (daemon.pc = "sleep" /\ daemon.done \cup daemon.failed # {})
              => daemon.done \cup daemon.failed = 1..db.ChatSession

\* the part of C30 about failures alone
C30_FailureIsolated ==
    (entry = "backup_all_sessions" /\ daemon.pc = "sleep"
        /\ daemon.done \cup daemon.failed # {})
    => daemon.done \cup daemon.failed = 1..db.ChatSession

\* second session backed up after the first one failed
C30_IsolationReached ==
    /\ entry = "backup_all_sessions"
    /\ daemon.pc = "sleep"
    /\ daemon.failed = {1}
    /\ daemon.done = {2}

====
